---- MODULE Spec2Model ----
(***************************************************************************)
(* The androidoscopy session broker: server/src/session.rs (Session,       *)
(* SessionManager, RingBuffer), server/src/handlers.rs (the app and the    *)
(* dashboard connection handlers, broadcast_to_dashboards) and             *)
(* server/src/protocol.rs (AppMessage::validate).                          *)
(*                                                                         *)
(* One producer (app) connection is one run of handle_app_connection, one  *)
(* consumer (dashboard) connection is one run of                           *)
(* handle_dashboard_connection.  The tokio Mutex around the SessionManager *)
(* is the variable lock; a handler that awaits inside its critical section *)
(* (a WebSocket write, a send on a full mpsc channel) keeps the lock over  *)
(* several steps of the model.                                             *)
(***************************************************************************)
EXTENDS Integers, Sequences, FiniteSets, TLC

\* ---------------------------------------------------------------- bounds
MaxEnv == 2            \* frames accepted after registration and ACTIONs over a run
MaxTime == 3           \* clock ticks over a run
TicksPerSecond == 1    \* clock resolution, in ticks per second
DataBufferSize == 1    \* largest config session.data_buffer_size, scaled down
LogBufferSize == 2     \* largest config session.log_buffer_size, scaled down
TtlSeconds == 1        \* config session.ended_session_ttl_seconds, scaled down
AppChannelCap == 1     \* mpsc::channel::<ServiceToAppMessage>(32), scaled down
DashChannelCap == 2    \* mpsc::channel::<ServiceToDashboardMessage>(64), scaled down
MaxRingCap == 2        \* largest capacity of the RingBuffer taken on its own
MaxOver == 2           \* lengths tried on each side of a size limit
MaxPush == 4           \* pushes into the RingBuffer taken on its own

\* ------------------------------------------------------ program constants
MAX_LOG_MESSAGE_SIZE == 65536
MAX_LOG_THROWABLE_SIZE == 262144

\* The connections of a run: three producer and two consumer connections.
Producers == {1, 2, 3}

\* The producer connections of the runs with two of them.
TwoProducers == {1, 2}
Consumers == {1, 2}

NoTime == -1           \* Option<DateTime>::None
NoSender == 0          \* Option<mpsc::Sender>::None
NoLen == -1            \* Option<String>::None, as a length
NoRing == -1           \* no RingBuffer constructed yet

\* One REGISTER payload, for the runs with one (device_id, package_name).
OnePayload == [device_id |-> "d1", package_name |-> "com.a", dashboard |-> "s1"]

\* REGISTER payloads: the fields create_session and Session::new read.
RegisterPayloads ==
    { [device_id |-> "d1", package_name |-> "com.a", dashboard |-> "s1"],
      [device_id |-> "d1", package_name |-> "com.b", dashboard |-> "s1"],
      [device_id |-> "d2", package_name |-> "com.a", dashboard |-> "s1"] }

DataValues == {"v1", "v2"}

\* LOG payloads: the text of the message and the byte lengths validate reads.
LogPayloads ==
    { [message |-> "m2", message_len |-> MAX_LOG_MESSAGE_SIZE,
       throwable_len |-> MAX_LOG_THROWABLE_SIZE],
      [message |-> "m3", message_len |-> MAX_LOG_MESSAGE_SIZE + 1,
       throwable_len |-> NoLen],
      [message |-> "m4", message_len |-> 10,
       throwable_len |-> MAX_LOG_THROWABLE_SIZE + 1] }

ActionNames == {"clear_cache", "network_clear"}

\* Session ids a frame can carry: every id the broker can mint, and 0, an id
\* the broker never mints.
SessionIdsInFrames == 0..Cardinality(Producers)

Free == <<"free", 0>>
AppH(p) == <<"app", p>>
DashH(c) == <<"dash", c>>
NoPending == [kind |-> "none"]
NoMsg == [type |-> "NONE"]
NoWrite == [to |-> Free, frame |-> NoMsg]

VARIABLES
    sessions,           \* SessionManager.sessions: id -> Session
    data_buffer_size,   \* SessionManager.data_buffer_size, from the config:
                        \* the capacity of the data ring of every session
    log_buffer_size,    \* SessionManager.log_buffer_size, likewise
    next_id,            \* the next id Uuid::new_v4 yields
    dashboard_senders,  \* SessionManager.dashboard_senders: Seq of consumers
    lock,               \* holder of the SessionManager mutex
    pending,            \* the send the lock holder is suspended in
    now,                \* Utc::now(), in ticks
    app_pc,             \* position of each handle_app_connection
    app_sid,            \* its session_id once REGISTER was handled
    app_resumed,        \* its `resumed` flag
    app_rx,             \* receiver of its mpsc channel: "open", "aborted"
                        \* (abort() called on the task that owns it, which
                        \* is not cancelled yet) or "closed" (dropped)
    app_queue,          \* content of its mpsc channel
    app_forwarding,     \* the message its forward task took and is writing
    app_written,        \* whether a frame was written to its WebSocket
    dash_pc,            \* position of each handle_dashboard_connection
    dash_sync,          \* the `sessions` vector computed for its SYNC
    dash_rx,            \* receiver of its mpsc channel: "open", "aborted"
                        \* or "closed"
    dash_queue,         \* content of its mpsc channel
    dash_forwarding,    \* the message its forward task took and is writing
    dash_written,       \* whether a frame was written to its WebSocket
    emitted,            \* the message whose broadcast the last step began
    written,            \* the frame the last step wrote to a WebSocket
    n_env,              \* frames accepted after registration and ACTIONs so far
    ring,               \* a RingBuffer taken on its own: its items
    ring_cap,           \* its capacity (NoRing: not constructed)
    ring_in,            \* the items pushed into it since it was constructed
                        \* or last cleared
    accepted,           \* the messages whose broadcast began, in order
    observed,           \* per consumer: the frames written to its WebSocket
    recording,          \* what a run records: "none", "observed" or "all"
    validated,          \* the last AppMessage validated on its own, and the result
    added               \* the last add_data or add_log called on the manager
                        \* taken on its own, and what it returned

\* The broker's state.
brokerVars == <<sessions, data_buffer_size, log_buffer_size, next_id,
                dashboard_senders, lock, pending, now,
                app_pc, app_sid, app_resumed, app_rx, app_queue, app_forwarding,
                app_written, dash_pc, dash_sync, dash_rx, dash_queue,
                dash_forwarding, dash_written, emitted, written, n_env>>

\* The RingBuffer taken on its own.
ringVars == <<ring, ring_cap, ring_in>>

\* The record of what the broker broadcast and what each consumer was sent.
histVars == <<accepted, observed, recording>>

\* Every step of the broker leaves the configured capacities and the
\* RingBuffer taken on its own alone and is recorded as the run asks: the
\* message whose broadcast it began, the frame it wrote to a consumer's
\* WebSocket.
Bookkeeping ==
    /\ UNCHANGED <<data_buffer_size, log_buffer_size>>
    /\ UNCHANGED <<ringVars, recording, validated, added>>
    /\ accepted' = IF recording = "all" /\ emitted' # [type |-> "NONE"]
                       THEN Append(accepted, emitted')
                       ELSE accepted
    /\ observed' = [c \in DOMAIN observed |->
                       IF recording # "none" /\ written'.to = <<"dash", c>>
                           THEN Append(observed[c], written'.frame)
                           ELSE observed[c]]

vars == <<brokerVars, ringVars, histVars, validated, added>>

appVars == <<app_pc, app_sid, app_resumed, app_rx, app_queue, app_forwarding,
             app_written>>
dashVars == <<dash_pc, dash_sync, dash_rx, dash_queue, dash_forwarding,
              dash_written>>

\* ------------------------------------------------------------ RingBuffer
\* The items pushed into the RingBuffer taken on its own.
RingItems == {1, 2, 3}

\* Mutant: a full buffer evicts its newest item instead of its oldest.
Mutant_RingBuffer_push_evicts_newest(items, capacity, item) ==
    IF Len(items) >= capacity /\ items # <<>>
        THEN Append(SubSeq(items, 1, Len(items) - 1), item)
        ELSE Append(items, item)

\* Mutant: a full buffer refuses the new item instead of evicting the oldest.
Mutant_RingBuffer_push_keeps_oldest(items, capacity, item) ==
    IF Len(items) >= capacity THEN items ELSE Append(items, item)

RingBuffer_push(items, capacity, item) ==
    IF Len(items) >= capacity /\ items # <<>>
        THEN Append(Tail(items), item)
        ELSE Append(items, item)

RingBuffer_clear(items) == << >>

\* iter() yields the items front to back; len() is their number.
RingBuffer_iter(items) == items

RingBuffer_len(items) == Len(items)

\* --------------------------------------------------------------- Session
Session_new(id, register, app_sender, t) ==
    [id |-> id,
     device_id |-> register.device_id,
     package_name |-> register.package_name,
     dashboard_schema |-> register.dashboard,
     started_at |-> t,
     ended_at |-> NoTime,
     data_buffer |-> <<>>,
     log_buffer |-> <<>>,
     network_requests |-> <<>>,
     app_sender |-> app_sender]

Session_add_data(s, payload) ==
    [s EXCEPT !.data_buffer = RingBuffer_push(@, data_buffer_size, payload)]

Session_add_log(s, payload) ==
    [s EXCEPT !.log_buffer = RingBuffer_push(@, log_buffer_size, payload)]

Session_clear_network_requests(s) ==
    [s EXCEPT !.network_requests = RingBuffer_clear(@)]

Session_get_latest_data(s) ==
    IF s.data_buffer = <<>> THEN "none"
    ELSE s.data_buffer[Len(s.data_buffer)]

Session_get_recent_logs(s) == s.log_buffer

Session_is_active(s) == s.ended_at = NoTime

Session_end(s, t) ==
    [s EXCEPT !.ended_at = t, !.app_sender = NoSender]

\* Mutant: resume starts the session over with empty rings.
Mutant_Session_resume_empties_rings(s, app_sender) ==
    [s EXCEPT !.ended_at = NoTime, !.app_sender = app_sender,
              !.data_buffer = << >>, !.log_buffer = << >>]

\* Mutant: resume installs the sender and leaves ended_at in place.
Mutant_Session_resume_keeps_ended_at(s, app_sender) ==
    [s EXCEPT !.app_sender = app_sender]

Session_resume(s, app_sender) ==
    [s EXCEPT !.ended_at = NoTime, !.app_sender = app_sender]

Session_to_session_info(s) ==
    [session_id |-> s.id,
     device_id |-> s.device_id,
     package_name |-> s.package_name,
     dashboard |-> s.dashboard_schema,
     started_at |-> s.started_at,
     latest_data |-> Session_get_latest_data(s),
     recent_logs |-> Session_get_recent_logs(s)]

\* Mutant: the search of create_session without the ended_at test.
Mutant_ResumeCandidates_any_state(ss, register) ==
    { id \in DOMAIN ss :
        /\ ss[id].device_id = register.device_id
        /\ ss[id].package_name = register.package_name }

\* -------------------------------------------------------- SessionManager
\* The sessions the `find` of create_session can return.
ResumeCandidates(ss, register) ==
    { id \in DOMAIN ss :
        /\ ss[id].ended_at # NoTime
        /\ ss[id].device_id = register.device_id
        /\ ss[id].package_name = register.package_name }

\* create_session with the session `existing` found (0: none found) and the
\* id `fresh` the uuid generator yields, at the time t; the result is the new
\* map, the session id and the resumed flag.
SessionManager_create_session(ss, register, app_sender, existing, fresh, t) ==
    IF existing # 0
        THEN [sessions |-> [ss EXCEPT ![existing] = Session_resume(@, app_sender)],
              session_id |-> existing,
              resumed |-> TRUE]
        ELSE [sessions |-> [id \in DOMAIN ss \cup {fresh} |->
                              IF id = fresh
                                  THEN Session_new(fresh, register, app_sender, t)
                                  ELSE ss[id]],
              session_id |-> fresh,
              resumed |-> FALSE]

SessionManager_end_session(ss, session_id, t) ==
    IF session_id \in DOMAIN ss
        THEN [ss EXCEPT ![session_id] = Session_end(@, t)]
        ELSE ss

\* remove_session: the table without the session of that id.
SessionManager_remove_session(ss, session_id) ==
    [id \in DOMAIN ss \ {session_id} |-> ss[id]]

\* Mutant: add_data reports success for an id that is not in the table.
Mutant_add_data_always_true(ss, session_id, payload) ==
    IF session_id \in DOMAIN ss
        THEN [sessions |-> [ss EXCEPT ![session_id] = Session_add_data(@, payload)],
              result |-> TRUE]
        ELSE [sessions |-> ss, result |-> TRUE]

\* add_data and add_log: the table after the call and the bool returned.
SessionManager_add_data(ss, session_id, payload) ==
    IF session_id \in DOMAIN ss
        THEN [sessions |-> [ss EXCEPT ![session_id] = Session_add_data(@, payload)],
              result |-> TRUE]
        ELSE [sessions |-> ss, result |-> FALSE]

SessionManager_add_log(ss, session_id, payload) ==
    IF session_id \in DOMAIN ss
        THEN [sessions |-> [ss EXCEPT ![session_id] = Session_add_log(@, payload)],
              result |-> TRUE]
        ELSE [sessions |-> ss, result |-> FALSE]

\* Mutant: get_active_sessions without the is_active filter.
Mutant_get_active_sessions_all(ss) == DOMAIN ss

\* The ids of get_active_sessions.
SessionManager_get_active_sessions(ss) ==
    { id \in DOMAIN ss : Session_is_active(ss[id]) }

\* num_seconds() of now - ended_at: whole seconds, truncated.
ElapsedSeconds(t, ended_at) == (t - ended_at) \div TicksPerSecond

\* The sessions cleanup_ended_sessions retains.
CleanupRetains(s, t) ==
    IF s.ended_at # NoTime
        THEN ElapsedSeconds(t, s.ended_at) < TtlSeconds
        ELSE TRUE

SessionManager_cleanup_ended_sessions(ss, t) ==
    [id \in { i \in DOMAIN ss : CleanupRetains(ss[i], t) } |-> ss[id]]

SessionManager_add_dashboard_sender(senders, c) == Append(senders, c)

\* Mutant: the removal empties the roster.
Mutant_remove_dashboard_sender_clears(senders, c) == << >>

SessionManager_remove_dashboard_sender(senders, c) ==
    SelectSeq(senders, LAMBDA x : x # c)

\* The orders in which a HashMap can yield the entries of the keys S: the
\* iteration order of `sessions.values()` is unspecified, so every sequence
\* in which each key occurs once.
HashMapOrders(S) ==
    { order \in [1..Cardinality(S) -> S] :
        \A i, j \in 1..Cardinality(S) : i # j => order[i] # order[j] }

\* The `sessions` vector of SYNC: the snapshots of the active sessions, in
\* the order the HashMap yielded them.
SyncSessions(ss, order) ==
    [i \in 1..Len(order) |-> Session_to_session_info(ss[order[i]])]

\* --------------------------------------------------------------- protocol
\* Mutant: a length equal to the limit is rejected.
Mutant_validate_rejects_at_limit(type, payload) ==
    IF type = "LOG"
        THEN IF payload.message_len >= MAX_LOG_MESSAGE_SIZE
                 THEN "LogMessageTooLarge"
             ELSE IF payload.throwable_len # NoLen
                     /\ payload.throwable_len >= MAX_LOG_THROWABLE_SIZE
                 THEN "LogThrowableTooLarge"
             ELSE "Ok"
        ELSE "Ok"

AppMessage_validate(type, payload) ==
    IF type = "LOG"
        THEN IF payload.message_len > MAX_LOG_MESSAGE_SIZE
                 THEN "LogMessageTooLarge"
             ELSE IF payload.throwable_len # NoLen
                     /\ payload.throwable_len > MAX_LOG_THROWABLE_SIZE
                 THEN "LogThrowableTooLarge"
             ELSE "Ok"
        ELSE "Ok"


\* ACTION_RESULT payloads a producer sends.
ActionResultPayloads ==
    { [action_id |-> "a1", success |-> TRUE, message |-> "cleared",
       data |-> "r1"] }

\* ACTION payloads a consumer sends, without the session id.
DashboardActionPayloads ==
    { [action_id |-> "a1", action |-> "clear_cache", args |-> "all"],
      [action_id |-> "a2", action |-> "network_clear", args |-> "none"] }

\* Mutant: the message goes to the front of each channel.
RECURSIVE Mutant_broadcast_to_dashboards_at_front(_, _, _, _)
Mutant_broadcast_to_dashboards_at_front(queues, rx, senders, msg) ==
    IF senders = <<>>
        THEN [queues |-> queues, rest |-> <<>>]
    ELSE LET c == Head(senders) IN
         IF rx[c] = "closed"
             THEN Mutant_broadcast_to_dashboards_at_front(
                      queues, rx, Tail(senders), msg)
         ELSE IF Len(queues[c]) < DashChannelCap
             THEN Mutant_broadcast_to_dashboards_at_front(
                      [queues EXCEPT ![c] = <<msg>> \o @], rx, Tail(senders), msg)
         ELSE [queues |-> queues, rest |-> senders]

\* -------------------------------------------------------------- broadcast
\* broadcast_to_dashboards over the senders `senders`, up to the first send
\* that has to wait for room in a full channel: the queues after the sends
\* done, and the senders not served yet (empty: the broadcast is complete).
\* A send to a channel whose receiver is gone fails and is ignored.
RECURSIVE broadcast_to_dashboards(_, _, _, _)
broadcast_to_dashboards(queues, rx, senders, msg) ==
    IF senders = <<>>
        THEN [queues |-> queues, rest |-> <<>>]
    ELSE LET c == Head(senders) IN
         IF rx[c] = "closed"
             THEN broadcast_to_dashboards(queues, rx, Tail(senders), msg)
         ELSE IF Len(queues[c]) < DashChannelCap
             THEN broadcast_to_dashboards(
                      [queues EXCEPT ![c] = Append(@, msg)], rx, Tail(senders), msg)
         ELSE [queues |-> queues, rest |-> senders]

\* The handler h, holding the lock, calls broadcast_to_dashboards(msg): it
\* releases the lock when the broadcast is complete and stays suspended in
\* it, with the lock, otherwise.
StartBroadcast(h, msg) ==
    LET r == broadcast_to_dashboards(dash_queue, dash_rx, dashboard_senders, msg)
    IN /\ dash_queue' = r.queues
       /\ dash_forwarding' = dash_forwarding
       /\ emitted' = msg
       /\ IF r.rest = <<>>
              THEN lock' = Free /\ pending' = NoPending
              ELSE /\ lock' = h
                   /\ pending' = [kind |-> "broadcast", msg |-> msg, rest |-> r.rest]

BroadcastCompletes(msg) ==
    broadcast_to_dashboards(dash_queue, dash_rx, dashboard_senders, msg).rest = <<>>

\* Where a producer handler is once the broadcast it began is complete.
PcAfterBroadcast(pc) ==
    CASE pc = "reg_bcast" -> "registered"
      [] pc = "event_bcast" -> "registered"
      [] pc = "end_bcast" -> "terminal"
      [] OTHER -> pc

\* ------------------------------------------------------------------- Init
Init ==
    /\ sessions = << >>
    /\ data_buffer_size \in 0..DataBufferSize
    /\ log_buffer_size \in 0..LogBufferSize
    /\ next_id = 1
    /\ dashboard_senders = << >>
    /\ lock = Free
    /\ pending = NoPending
    /\ now = 0
    /\ app_pc = [p \in Producers |-> "await"]
    /\ app_sid = [p \in Producers |-> 0]
    /\ app_resumed = [p \in Producers |-> FALSE]
    /\ app_rx = [p \in Producers |-> "open"]
    /\ app_queue = [p \in Producers |-> << >>]
    /\ app_forwarding = [p \in Producers |-> NoMsg]
    /\ app_written = [p \in Producers |-> FALSE]
    /\ dash_pc = [c \in Consumers |-> "idle"]
    /\ dash_sync = [c \in Consumers |-> << >>]
    /\ dash_rx = [c \in Consumers |-> "open"]
    /\ dash_queue = [c \in Consumers |-> << >>]
    /\ dash_forwarding = [c \in Consumers |-> NoMsg]
    /\ dash_written = [c \in Consumers |-> FALSE]
    /\ emitted = NoMsg
    /\ written = NoWrite
    /\ n_env = 0
    /\ ring = << >>
    /\ ring_cap = NoRing
    /\ ring_in = << >>
    /\ accepted = << >>
    /\ observed = [c \in Consumers |-> << >>]
    /\ recording \in {"none", "observed", "all"}
    /\ validated = [type |-> "NONE"]
    /\ added = [op |-> "NONE"]

\* The initial state of a run with the largest capacities that records
\* nothing, ...
InitPlain ==
    /\ Init
    /\ data_buffer_size = DataBufferSize /\ log_buffer_size = LogBufferSize
    /\ recording = "none"

\* ... of one that records the frames written to the consumers, ...
InitObserved ==
    /\ Init
    /\ data_buffer_size = DataBufferSize /\ log_buffer_size = LogBufferSize
    /\ recording = "observed"

\* ... of one that also records the messages broadcast.
InitRecorded ==
    /\ Init
    /\ data_buffer_size = DataBufferSize /\ log_buffer_size = LogBufferSize
    /\ recording = "all"

\* ------------------------------------------------ handle_app_connection
\* REGISTER read in the wait loop: lock, create_session; the handler then
\* writes REGISTERED to the WebSocket with the lock held.
AppRegister(p, register) ==
    /\ app_pc[p] = "await"
    /\ lock = Free
    /\ LET cands == ResumeCandidates(sessions, register)
       IN \E existing \in (IF cands = {} THEN {0} ELSE cands) :
            LET r == SessionManager_create_session(
                         sessions, register, p, existing, next_id, now)
            IN /\ sessions' = r.sessions
               /\ next_id' = IF r.resumed THEN next_id ELSE next_id + 1
               /\ app_sid' = [app_sid EXCEPT ![p] = r.session_id]
               /\ app_resumed' = [app_resumed EXCEPT ![p] = r.resumed]
    /\ lock' = AppH(p)
    /\ app_pc' = [app_pc EXCEPT ![p] = "reg_write"]
    /\ emitted' = NoMsg
    /\ written' = NoWrite
    /\ UNCHANGED <<dashboard_senders, pending, now, app_rx, app_queue,
                   app_forwarding, app_written, dashVars, n_env>>
    /\ Bookkeeping

\* Mutant: every registration is announced as SESSION_STARTED.
Mutant_SessionLifecycleMsg_always_started(resumed, s) ==
    [type |-> "SESSION_STARTED", session |-> Session_to_session_info(s)]

SessionLifecycleMsg(resumed, s) ==
    [type |-> IF resumed THEN "SESSION_RESUMED" ELSE "SESSION_STARTED",
     session |-> Session_to_session_info(s)]

\* Mutant: the wait loop is left, with the broadcast, without the write of
\* REGISTERED.
Mutant_AppRegisteredWritten_no_write(p) ==
    /\ app_pc[p] = "reg_write"
    /\ LET msg == [type |-> IF app_resumed[p] THEN "SESSION_RESUMED"
                                              ELSE "SESSION_STARTED",
                   session |-> Session_to_session_info(sessions[app_sid[p]])]
       IN /\ StartBroadcast(AppH(p), msg)
          /\ app_pc' = [app_pc EXCEPT ![p] =
                 IF BroadcastCompletes(msg) THEN "registered" ELSE "reg_bcast"]
    /\ written' = NoWrite
    /\ UNCHANGED <<sessions, next_id, dashboard_senders, now, app_sid,
                   app_resumed, app_rx, app_queue, app_forwarding, app_written,
                   dash_pc, dash_sync, dash_rx, dash_written, n_env>>
    /\ Bookkeeping

\* Mutant: REGISTERED is written and the wait loop left without the
\* broadcast of SESSION_STARTED or SESSION_RESUMED.
Mutant_AppRegisteredWritten_no_broadcast(p) ==
    /\ app_pc[p] = "reg_write"
    /\ app_pc' = [app_pc EXCEPT ![p] = "registered"]
    /\ lock' = Free
    /\ pending' = NoPending
    /\ emitted' = NoMsg
    /\ written' = [to |-> AppH(p),
                   frame |-> [type |-> "REGISTERED", session_id |-> app_sid[p]]]
    /\ app_written' = [app_written EXCEPT ![p] = TRUE]
    /\ UNCHANGED <<sessions, next_id, dashboard_senders, now, app_sid,
                   app_resumed, app_rx, app_queue, app_forwarding, dashVars,
                   n_env>>
    /\ Bookkeeping

\* The write of REGISTERED succeeds: broadcast SESSION_STARTED or
\* SESSION_RESUMED, leave the wait loop.
AppRegisteredWritten(p) ==
    /\ app_pc[p] = "reg_write"
    /\ LET msg == SessionLifecycleMsg(app_resumed[p], sessions[app_sid[p]])
       IN /\ StartBroadcast(AppH(p), msg)
          /\ app_pc' = [app_pc EXCEPT ![p] =
                 IF BroadcastCompletes(msg) THEN "registered" ELSE "reg_bcast"]
    /\ written' = [to |-> AppH(p),
                   frame |-> [type |-> "REGISTERED", session_id |-> app_sid[p]]]
    /\ app_written' = [app_written EXCEPT ![p] = TRUE]
    /\ UNCHANGED <<sessions, next_id, dashboard_senders, now, app_sid,
                   app_resumed, app_rx, app_queue, app_forwarding, dash_pc,
                   dash_sync, dash_rx, dash_written, n_env>>
    /\ Bookkeeping

\* The write of REGISTERED fails: the handler returns.  Its receiver and the
\* lock guard are dropped; the session keeps its clone of the sender.
AppRegisteredWriteFails(p) ==
    /\ app_pc[p] = "reg_write"
    /\ app_pc' = [app_pc EXCEPT ![p] = "terminal"]
    /\ app_rx' = [app_rx EXCEPT ![p] = "closed"]
    /\ lock' = Free
    /\ emitted' = NoMsg
    /\ written' = NoWrite
    /\ UNCHANGED <<sessions, next_id, dashboard_senders, pending, now, app_sid,
                   app_resumed, app_queue, app_forwarding, app_written,
                   dashVars, n_env>>
    /\ Bookkeeping

\* Any other frame in the wait loop (another message type, a parse failure,
\* binary, ping, pong) is ignored.
AppAwaitIgnore(p) ==
    /\ app_pc[p] = "await"
    /\ emitted' = NoMsg
    /\ written' = NoWrite
    /\ UNCHANGED <<sessions, next_id, dashboard_senders, lock, pending, now,
                   appVars, dashVars, n_env>>
    /\ Bookkeeping

\* Mutant: a close in the wait loop goes through the clean-up of the main
\* loop.
Mutant_AppAwaitClose_cleans_up(p) ==
    /\ app_pc[p] = "await"
    /\ app_pc' = [app_pc EXCEPT ![p] = "closing"]
    /\ app_rx' = [app_rx EXCEPT ![p] = "closed"]
    /\ emitted' = NoMsg
    /\ written' = NoWrite
    /\ UNCHANGED <<sessions, next_id, dashboard_senders, lock, pending, now,
                   app_sid, app_resumed, app_queue, app_forwarding, app_written,
                   dashVars, n_env>>
    /\ Bookkeeping

\* Close frame, end of stream or read error in the wait loop: return.
AppAwaitClose(p) ==
    /\ app_pc[p] = "await"
    /\ app_pc' = [app_pc EXCEPT ![p] = "terminal"]
    /\ app_rx' = [app_rx EXCEPT ![p] = "closed"]
    /\ emitted' = NoMsg
    /\ written' = NoWrite
    /\ UNCHANGED <<sessions, next_id, dashboard_senders, lock, pending, now,
                   app_sid, app_resumed, app_queue, app_forwarding, app_written,
                   dashVars, n_env>>
    /\ Bookkeeping

\* A frame of the main loop that is accepted: it validates and carries the
\* handler's session id.
\* Mutant: the session id of the frame is not compared with the handler's.
Mutant_AppAccepts_any_session_id(p, type, session_id, payload) ==
    /\ app_pc[p] = "registered"
    /\ AppMessage_validate(type, payload) = "Ok"
    /\ lock = Free

AppAccepts(p, type, session_id, payload) ==
    /\ app_pc[p] = "registered"
    /\ AppMessage_validate(type, payload) = "Ok"
    /\ session_id = app_sid[p]
    /\ lock = Free

AppData(p, session_id, payload) ==
    /\ AppAccepts(p, "DATA", session_id, payload)
    /\ sessions' = SessionManager_add_data(sessions, app_sid[p], payload).sessions
    /\ LET msg == [type |-> "SESSION_DATA", session_id |-> app_sid[p],
                   data |-> payload]
       IN /\ StartBroadcast(AppH(p), msg)
          /\ app_pc' = [app_pc EXCEPT ![p] =
                 IF BroadcastCompletes(msg) THEN "registered" ELSE "event_bcast"]
    /\ n_env' = n_env + 1
    /\ written' = NoWrite
    /\ UNCHANGED <<next_id, dashboard_senders, now, app_sid, app_resumed,
                   app_rx, app_queue, app_forwarding, app_written, dash_pc,
                   dash_sync, dash_rx, dash_written>>
    /\ Bookkeeping

AppLog(p, session_id, payload) ==
    /\ AppAccepts(p, "LOG", session_id, payload)
    /\ sessions' = SessionManager_add_log(sessions, app_sid[p], payload).sessions
    /\ LET msg == [type |-> "SESSION_LOG", session_id |-> app_sid[p],
                   log |-> payload]
       IN /\ StartBroadcast(AppH(p), msg)
          /\ app_pc' = [app_pc EXCEPT ![p] =
                 IF BroadcastCompletes(msg) THEN "registered" ELSE "event_bcast"]
    /\ n_env' = n_env + 1
    /\ written' = NoWrite
    /\ UNCHANGED <<next_id, dashboard_senders, now, app_sid, app_resumed,
                   app_rx, app_queue, app_forwarding, app_written, dash_pc,
                   dash_sync, dash_rx, dash_written>>
    /\ Bookkeeping

\* Mutant: the result goes out without the producer's message and data.
Mutant_ActionResultMsg_bare(session_id, payload) ==
    [type |-> "ACTION_RESULT", session_id |-> session_id,
     action_id |-> payload.action_id, success |-> payload.success,
     message |-> "none", data |-> "none"]

\* ServiceToDashboardMessage::ActionResult built from the handler's session
\* id and the producer's payload.
ActionResultMsg(session_id, payload) ==
    [type |-> "ACTION_RESULT", session_id |-> session_id,
     action_id |-> payload.action_id, success |-> payload.success,
     message |-> payload.message, data |-> payload.data]

AppActionResult(p, session_id, payload) ==
    /\ AppAccepts(p, "ACTION_RESULT", session_id, payload)
    /\ LET msg == ActionResultMsg(app_sid[p], payload)
       IN /\ StartBroadcast(AppH(p), msg)
          /\ app_pc' = [app_pc EXCEPT ![p] =
                 IF BroadcastCompletes(msg) THEN "registered" ELSE "event_bcast"]
    /\ n_env' = n_env + 1
    /\ written' = NoWrite
    /\ UNCHANGED <<sessions, next_id, dashboard_senders, now, app_sid,
                   app_resumed, app_rx, app_queue, app_forwarding, app_written,
                   dash_pc, dash_sync, dash_rx, dash_written>>
    /\ Bookkeeping

\* A frame of the main loop that is dropped: it fails validation, or its
\* session id is not the handler's, or it is a second REGISTER, or it does
\* not parse, or it is binary, ping or pong (one step for each).
\* Mutant: a frame that fails validation ends the main loop.
Mutant_AppDropInvalid_closes(p, payload) ==
    /\ app_pc[p] = "registered"
    /\ AppMessage_validate("LOG", payload) # "Ok"
    /\ app_pc' = [app_pc EXCEPT ![p] = "closing"]
    /\ app_rx' = [app_rx EXCEPT ![p] = IF @ = "open" THEN "aborted" ELSE @]
    /\ emitted' = NoMsg
    /\ written' = NoWrite
    /\ UNCHANGED <<sessions, next_id, dashboard_senders, lock, pending, now,
                   app_sid, app_resumed, app_queue, app_forwarding,
                   app_written, dashVars, n_env>>
    /\ Bookkeeping

AppDropInvalid(p, payload) ==
    /\ app_pc[p] = "registered"
    /\ AppMessage_validate("LOG", payload) # "Ok"
    /\ emitted' = NoMsg
    /\ written' = NoWrite
    /\ UNCHANGED <<sessions, next_id, dashboard_senders, lock, pending, now,
                   appVars, dashVars, n_env>>
    /\ Bookkeeping

AppDropMismatch(p, type, session_id) ==
    /\ app_pc[p] = "registered"
    /\ type \in {"DATA", "LOG", "ACTION_RESULT"}
    /\ session_id # app_sid[p]
    /\ emitted' = NoMsg
    /\ written' = NoWrite
    /\ UNCHANGED <<sessions, next_id, dashboard_senders, lock, pending, now,
                   appVars, dashVars, n_env>>
    /\ Bookkeeping

\* Mutant: a second REGISTER is handled like the first one: create_session
\* runs again for the handler.
Mutant_AppDuplicateRegister_registers_again(p, register) ==
    /\ app_pc[p] = "registered"
    /\ lock = Free
    /\ LET cands == ResumeCandidates(sessions, register)
       IN \E existing \in (IF cands = {} THEN {0} ELSE cands) :
            LET r == SessionManager_create_session(
                         sessions, register, p, existing, next_id, now)
            IN /\ sessions' = r.sessions
               /\ next_id' = IF r.resumed THEN next_id ELSE next_id + 1
               /\ app_sid' = [app_sid EXCEPT ![p] = r.session_id]
               /\ app_resumed' = [app_resumed EXCEPT ![p] = r.resumed]
    /\ emitted' = NoMsg
    /\ written' = NoWrite
    /\ UNCHANGED <<dashboard_senders, lock, pending, now, app_pc, app_rx,
                   app_queue, app_forwarding, app_written, dashVars, n_env>>
    /\ Bookkeeping

\* A REGISTER read in the main loop: a warning, nothing else.
AppDuplicateRegister(p, register) ==
    /\ app_pc[p] = "registered"
    /\ AppMessage_validate("REGISTER", register) = "Ok"
    /\ emitted' = NoMsg
    /\ written' = NoWrite
    /\ UNCHANGED <<sessions, next_id, dashboard_senders, lock, pending, now,
                   appVars, dashVars, n_env>>
    /\ Bookkeeping

\* A text frame that does not parse, or a binary, ping or pong frame, read in
\* the main loop.
AppDropOther(p) ==
    /\ app_pc[p] = "registered"
    /\ emitted' = NoMsg
    /\ written' = NoWrite
    /\ UNCHANGED <<sessions, next_id, dashboard_senders, lock, pending, now,
                   appVars, dashVars, n_env>>
    /\ Bookkeeping

\* The main loop ends (close frame, end of stream, read error):
\* forward_task.abort() asks for the cancellation of the forward task, which
\* keeps its receiver and the message it is writing until it is cancelled.
AppLoopExit(p) ==
    /\ app_pc[p] = "registered"
    /\ app_pc' = [app_pc EXCEPT ![p] = "closing"]
    /\ app_rx' = [app_rx EXCEPT ![p] = IF @ = "open" THEN "aborted" ELSE @]
    /\ emitted' = NoMsg
    /\ written' = NoWrite
    /\ UNCHANGED <<sessions, next_id, dashboard_senders, lock, pending, now,
                   app_sid, app_resumed, app_queue, app_forwarding,
                   app_written, dashVars, n_env>>
    /\ Bookkeeping

\* Mutant: after its clean-up the handler reads frames again.
Mutant_AppTeardown_keeps_reading(p) ==
    /\ app_pc[p] = "closing"
    /\ lock = Free
    /\ sessions' = SessionManager_end_session(sessions, app_sid[p], now)
    /\ LET msg == [type |-> "SESSION_ENDED", session_id |-> app_sid[p]]
       IN /\ StartBroadcast(AppH(p), msg)
          /\ app_pc' = [app_pc EXCEPT ![p] =
                 IF BroadcastCompletes(msg) THEN "registered" ELSE "end_bcast"]
    /\ written' = NoWrite
    /\ UNCHANGED <<next_id, dashboard_senders, now, app_sid, app_resumed,
                   app_rx, app_queue, app_forwarding, app_written, dash_pc,
                   dash_sync, dash_rx, dash_written, n_env>>
    /\ Bookkeeping

\* Clean up: lock, end_session, broadcast SESSION_ENDED.
AppTeardown(p) ==
    /\ app_pc[p] = "closing"
    /\ lock = Free
    /\ sessions' = SessionManager_end_session(sessions, app_sid[p], now)
    /\ LET msg == [type |-> "SESSION_ENDED", session_id |-> app_sid[p]]
       IN /\ StartBroadcast(AppH(p), msg)
          /\ app_pc' = [app_pc EXCEPT ![p] =
                 IF BroadcastCompletes(msg) THEN "terminal" ELSE "end_bcast"]
    /\ written' = NoWrite
    /\ UNCHANGED <<next_id, dashboard_senders, now, app_sid, app_resumed,
                   app_rx, app_queue, app_forwarding, app_written, dash_pc,
                   dash_sync, dash_rx, dash_written, n_env>>
    /\ Bookkeeping

\* The forward task of a producer: it runs from the end of the wait loop
\* until it breaks out of its loop or, once abort() was called, until the
\* runtime cancels it (a task that a worker thread is polling goes on to
\* the end of that poll).
AppForwarderRuns(p) ==
    \/ /\ app_pc[p] \in {"registered", "event_bcast"}
       /\ app_rx[p] = "open"
    \/ app_rx[p] = "aborted"

\* Its rx.recv() yields the head of the channel, which has a free slot from
\* then on.
AppForwardRecv(p) ==
    /\ AppForwarderRuns(p)
    /\ app_forwarding[p] = NoMsg
    /\ app_queue[p] # << >>
    /\ app_forwarding' = [app_forwarding EXCEPT ![p] = Head(app_queue[p])]
    /\ app_queue' = [app_queue EXCEPT ![p] = Tail(@)]
    /\ emitted' = NoMsg
    /\ written' = NoWrite
    /\ UNCHANGED <<sessions, next_id, dashboard_senders, lock, pending, now,
                   app_pc, app_sid, app_resumed, app_rx, app_written, dashVars,
                   n_env>>
    /\ Bookkeeping

\* Its write of the message it holds completes.
AppForward(p) ==
    /\ AppForwarderRuns(p)
    /\ app_forwarding[p] # NoMsg
    /\ written' = [to |-> AppH(p), frame |-> app_forwarding[p]]
    /\ app_written' = [app_written EXCEPT ![p] = TRUE]
    /\ app_forwarding' = [app_forwarding EXCEPT ![p] = NoMsg]
    /\ emitted' = NoMsg
    /\ UNCHANGED <<sessions, next_id, dashboard_senders, lock, pending, now,
                   app_pc, app_sid, app_resumed, app_rx, app_queue, dashVars,
                   n_env>>
    /\ Bookkeeping

\* Its write fails: the task breaks out of its loop and drops the receiver,
\* with what the channel holds.
AppForwardFails(p) ==
    /\ AppForwarderRuns(p)
    /\ app_forwarding[p] # NoMsg
    /\ app_rx' = [app_rx EXCEPT ![p] = "closed"]
    /\ app_queue' = [app_queue EXCEPT ![p] = << >>]
    /\ app_forwarding' = [app_forwarding EXCEPT ![p] = NoMsg]
    /\ emitted' = NoMsg
    /\ written' = NoWrite
    /\ UNCHANGED <<sessions, next_id, dashboard_senders, lock, pending, now,
                   app_pc, app_sid, app_resumed, app_written, dashVars, n_env>>
    /\ Bookkeeping

\* The runtime cancels the forward task after abort(): the receiver is
\* dropped, with what the channel holds and the message the task was
\* writing.
AppForwardAborted(p) ==
    /\ app_rx[p] = "aborted"
    /\ app_rx' = [app_rx EXCEPT ![p] = "closed"]
    /\ app_queue' = [app_queue EXCEPT ![p] = << >>]
    /\ app_forwarding' = [app_forwarding EXCEPT ![p] = NoMsg]
    /\ emitted' = NoMsg
    /\ written' = NoWrite
    /\ UNCHANGED <<sessions, next_id, dashboard_senders, lock, pending, now,
                   app_pc, app_sid, app_resumed, app_written, dashVars, n_env>>
    /\ Bookkeeping

\* The broadcast a producer handler is suspended in goes on: the channel it
\* waits for has room again, or lost its receiver.
BroadcastResume(p) ==
    /\ lock = AppH(p)
    /\ pending.kind = "broadcast"
    /\ LET c == Head(pending.rest)
       IN dash_rx[c] = "closed" \/ Len(dash_queue[c]) < DashChannelCap
    /\ LET r == broadcast_to_dashboards(dash_queue, dash_rx, pending.rest,
                                        pending.msg)
       IN /\ dash_queue' = r.queues
          /\ dash_forwarding' = dash_forwarding
          /\ IF r.rest = <<>>
                 THEN /\ lock' = Free
                      /\ pending' = NoPending
                      /\ app_pc' = [app_pc EXCEPT ![p] = PcAfterBroadcast(@)]
                 ELSE /\ lock' = lock
                      /\ pending' = [pending EXCEPT !.rest = r.rest]
                      /\ app_pc' = app_pc
    /\ emitted' = NoMsg
    /\ written' = NoWrite
    /\ UNCHANGED <<sessions, next_id, dashboard_senders, now, app_sid,
                   app_resumed, app_rx, app_queue, app_forwarding, app_written,
                   dash_pc, dash_sync, dash_rx, dash_written, n_env>>
    /\ Bookkeeping


\* ------------------------------------------- handle_dashboard_connection
\* Mutant: the handler attaches its sender and goes to its main loop without
\* writing SYNC.
Mutant_DashConnect_no_sync(c) ==
    /\ dash_pc[c] = "idle"
    /\ lock = Free
    /\ dashboard_senders' = Append(dashboard_senders, c)
    /\ dash_pc' = [dash_pc EXCEPT ![c] = "open"]
    /\ emitted' = NoMsg
    /\ written' = NoWrite
    /\ UNCHANGED <<sessions, next_id, lock, pending, now, appVars, dash_sync,
                   dash_rx, dash_queue, dash_forwarding, dash_written, n_env>>
    /\ Bookkeeping

\* The connection is established: lock, add_dashboard_sender, compute the
\* sessions of SYNC; the handler then writes SYNC with the lock held.
DashConnect(c) ==
    /\ dash_pc[c] = "idle"
    /\ lock = Free
    /\ dashboard_senders' = SessionManager_add_dashboard_sender(dashboard_senders, c)
    /\ \E order \in HashMapOrders(SessionManager_get_active_sessions(sessions)) :
           dash_sync' = [dash_sync EXCEPT ![c] = SyncSessions(sessions, order)]
    /\ lock' = DashH(c)
    /\ dash_pc' = [dash_pc EXCEPT ![c] = "sync_write"]
    /\ emitted' = NoMsg
    /\ written' = NoWrite
    /\ UNCHANGED <<sessions, next_id, pending, now, appVars, dash_rx,
                   dash_queue, dash_forwarding, dash_written, n_env>>
    /\ Bookkeeping

\* The write of SYNC succeeds: release the lock, spawn the forward task.
DashSyncWritten(c) ==
    /\ dash_pc[c] = "sync_write"
    /\ written' = [to |-> DashH(c),
                   frame |-> [type |-> "SYNC", sessions |-> dash_sync[c]]]
    /\ dash_written' = [dash_written EXCEPT ![c] = TRUE]
    /\ dash_sync' = [dash_sync EXCEPT ![c] = << >>]
    /\ lock' = Free
    /\ dash_pc' = [dash_pc EXCEPT ![c] = "open"]
    /\ emitted' = NoMsg
    /\ UNCHANGED <<sessions, next_id, dashboard_senders, pending, now, appVars,
                   dash_rx, dash_queue, dash_forwarding, n_env>>
    /\ Bookkeeping

\* The write of SYNC fails: remove_dashboard_sender, return.
DashSyncWriteFails(c) ==
    /\ dash_pc[c] = "sync_write"
    /\ dashboard_senders' =
           SessionManager_remove_dashboard_sender(dashboard_senders, c)
    /\ dash_sync' = [dash_sync EXCEPT ![c] = << >>]
    /\ dash_rx' = [dash_rx EXCEPT ![c] = "closed"]
    /\ lock' = Free
    /\ dash_pc' = [dash_pc EXCEPT ![c] = "done"]
    /\ emitted' = NoMsg
    /\ written' = NoWrite
    /\ UNCHANGED <<sessions, next_id, pending, now, appVars, dash_queue,
                   dash_forwarding, dash_written, n_env>>
    /\ Bookkeeping

ActionMsg(session_id, payload) ==
    [type |-> "ACTION", session_id |-> session_id,
     action_id |-> payload.action_id, action |-> payload.action,
     args |-> payload.args]

\* Mutant: network_clear empties every ring of the session.
Mutant_AfterNetworkClear_clears_all_rings(ss, session_id, payload) ==
    IF payload.action = "network_clear" /\ session_id \in DOMAIN ss
        THEN [ss EXCEPT ![session_id] =
                 [Session_clear_network_requests(@) EXCEPT
                      !.data_buffer = << >>, !.log_buffer = << >>]]
        ELSE ss

\* The sessions after the network_clear special case of an ACTION.
AfterNetworkClear(ss, session_id, payload) ==
    IF payload.action = "network_clear" /\ session_id \in DOMAIN ss
        THEN [ss EXCEPT ![session_id] = Session_clear_network_requests(@)]
        ELSE ss

\* Mutant: an ACTION for a session that is not in the table goes to producer
\* connection 1.
Mutant_ActionTarget_unknown_to_first(ss, session_id) ==
    IF session_id \in DOMAIN ss THEN ss[session_id].app_sender ELSE 1

\* Mutant: an ACTION goes to the first producer connection that was bound to
\* the session, whoever holds it now.
Mutant_ActionTarget_first_bound(ss, session_id) ==
    IF session_id \in DOMAIN ss /\ ss[session_id].app_sender # NoSender
        THEN LET bound == { p \in Producers : app_sid[p] = session_id }
             IN CHOOSE p \in bound : \A q \in bound : p <= q
        ELSE NoSender

\* The producer connection an ACTION for session_id is sent to (NoSender:
\* the session is unknown or has no app_sender).
ActionTarget(ss, session_id) ==
    IF session_id \in DOMAIN ss THEN ss[session_id].app_sender ELSE NoSender

\* ACTION read in the main loop: lock, route to the session's app_sender.
\* The send waits, with the lock held, while the producer's channel is full.
DashAction(c, session_id, payload) ==
    /\ dash_pc[c] = "open"
    /\ lock = Free
    /\ n_env' = n_env + 1
    /\ sessions' = AfterNetworkClear(sessions, session_id, payload)
    /\ LET p == ActionTarget(sessions', session_id)
           msg == ActionMsg(session_id, payload)
       IN IF p = NoSender \/ app_rx[p] = "closed"
              THEN UNCHANGED <<app_queue, lock, pending, dash_pc>>
          ELSE IF Len(app_queue[p]) < AppChannelCap
              THEN /\ app_queue' = [app_queue EXCEPT ![p] = Append(@, msg)]
                   /\ UNCHANGED <<lock, pending, dash_pc>>
          ELSE /\ lock' = DashH(c)
               /\ pending' = [kind |-> "action", to |-> p, msg |-> msg]
               /\ dash_pc' = [dash_pc EXCEPT ![c] = "action_send"]
               /\ UNCHANGED app_queue
    /\ emitted' = NoMsg
    /\ written' = NoWrite
    /\ UNCHANGED <<next_id, dashboard_senders, now, app_pc, app_sid,
                   app_resumed, app_rx, app_forwarding, app_written, dash_sync,
                   dash_rx, dash_queue, dash_forwarding, dash_written>>
    /\ Bookkeeping

\* The suspended send of an ACTION completes: the channel has room, or its
\* receiver is gone and the send fails.
DashActionResume(c) ==
    /\ lock = DashH(c)
    /\ pending.kind = "action"
    /\ LET p == pending.to
       IN \/ /\ app_rx[p] = "closed"
             /\ UNCHANGED app_queue
          \/ /\ app_rx[p] # "closed"
             /\ Len(app_queue[p]) < AppChannelCap
             /\ app_queue' = [app_queue EXCEPT ![p] = Append(@, pending.msg)]
    /\ lock' = Free
    /\ pending' = NoPending
    /\ dash_pc' = [dash_pc EXCEPT ![c] = "open"]
    /\ emitted' = NoMsg
    /\ written' = NoWrite
    /\ UNCHANGED <<sessions, next_id, dashboard_senders, now, app_pc, app_sid,
                   app_resumed, app_rx, app_forwarding, app_written, dash_sync,
                   dash_rx, dash_queue, dash_forwarding, dash_written, n_env>>
    /\ Bookkeeping

\* A frame that does not parse, or binary, ping, pong: ignored.
DashIgnore(c) ==
    /\ dash_pc[c] = "open"
    /\ emitted' = NoMsg
    /\ written' = NoWrite
    /\ UNCHANGED <<sessions, next_id, dashboard_senders, lock, pending, now,
                   appVars, dashVars, n_env>>
    /\ Bookkeeping

\* The main loop ends: forward_task.abort() asks for the cancellation of
\* the forward task, which keeps its receiver and the message it is writing
\* until it is cancelled.
DashLoopExit(c) ==
    /\ dash_pc[c] = "open"
    /\ dash_pc' = [dash_pc EXCEPT ![c] = "closing"]
    /\ dash_rx' = [dash_rx EXCEPT ![c] = IF @ = "open" THEN "aborted" ELSE @]
    /\ emitted' = NoMsg
    /\ written' = NoWrite
    /\ UNCHANGED <<sessions, next_id, dashboard_senders, lock, pending, now,
                   appVars, dash_sync, dash_queue, dash_forwarding,
                   dash_written, n_env>>
    /\ Bookkeeping

\* Clean up: lock, remove_dashboard_sender.
DashTeardown(c) ==
    /\ dash_pc[c] = "closing"
    /\ lock = Free
    /\ dashboard_senders' =
           SessionManager_remove_dashboard_sender(dashboard_senders, c)
    /\ dash_pc' = [dash_pc EXCEPT ![c] = "done"]
    /\ emitted' = NoMsg
    /\ written' = NoWrite
    /\ UNCHANGED <<sessions, next_id, lock, pending, now, appVars, dash_sync,
                   dash_rx, dash_queue, dash_forwarding, dash_written, n_env>>
    /\ Bookkeeping

\* The forward task of a consumer: it runs from the write of SYNC until it
\* breaks out of its loop or, once abort() was called, until the runtime
\* cancels it.
DashForwarderRuns(c) ==
    \/ /\ dash_pc[c] \in {"open", "action_send"}
       /\ dash_rx[c] = "open"
    \/ dash_rx[c] = "aborted"

\* Its rx.recv() yields the head of the channel, which has a free slot from
\* then on.
DashForwardRecv(c) ==
    /\ DashForwarderRuns(c)
    /\ dash_forwarding[c] = NoMsg
    /\ dash_queue[c] # << >>
    /\ dash_forwarding' = [dash_forwarding EXCEPT ![c] = Head(dash_queue[c])]
    /\ dash_queue' = [dash_queue EXCEPT ![c] = Tail(@)]
    /\ emitted' = NoMsg
    /\ written' = NoWrite
    /\ UNCHANGED <<sessions, next_id, dashboard_senders, lock, pending, now,
                   appVars, dash_pc, dash_sync, dash_rx, dash_written, n_env>>
    /\ Bookkeeping

\* Its write of the message it holds completes.
DashForward(c) ==
    /\ DashForwarderRuns(c)
    /\ dash_forwarding[c] # NoMsg
    /\ written' = [to |-> DashH(c), frame |-> dash_forwarding[c]]
    /\ dash_written' = [dash_written EXCEPT ![c] = TRUE]
    /\ dash_forwarding' = [dash_forwarding EXCEPT ![c] = NoMsg]
    /\ emitted' = NoMsg
    /\ UNCHANGED <<sessions, next_id, dashboard_senders, lock, pending, now,
                   appVars, dash_pc, dash_sync, dash_rx, dash_queue, n_env>>
    /\ Bookkeeping

\* Its write fails: the task breaks out of its loop and drops the receiver,
\* with what the channel holds.
DashForwardFails(c) ==
    /\ DashForwarderRuns(c)
    /\ dash_forwarding[c] # NoMsg
    /\ dash_rx' = [dash_rx EXCEPT ![c] = "closed"]
    /\ dash_queue' = [dash_queue EXCEPT ![c] = << >>]
    /\ dash_forwarding' = [dash_forwarding EXCEPT ![c] = NoMsg]
    /\ emitted' = NoMsg
    /\ written' = NoWrite
    /\ UNCHANGED <<sessions, next_id, dashboard_senders, lock, pending, now,
                   appVars, dash_pc, dash_sync, dash_written, n_env>>
    /\ Bookkeeping

\* The runtime cancels the forward task after abort(): the receiver is
\* dropped, with what the channel holds and the message the task was
\* writing.
DashForwardAborted(c) ==
    /\ dash_rx[c] = "aborted"
    /\ dash_rx' = [dash_rx EXCEPT ![c] = "closed"]
    /\ dash_queue' = [dash_queue EXCEPT ![c] = << >>]
    /\ dash_forwarding' = [dash_forwarding EXCEPT ![c] = NoMsg]
    /\ emitted' = NoMsg
    /\ written' = NoWrite
    /\ UNCHANGED <<sessions, next_id, dashboard_senders, lock, pending, now,
                   appVars, dash_pc, dash_sync, dash_written, n_env>>
    /\ Bookkeeping

\* --------------------------------------------------------- sweep and clock
\* cleanup_ended_sessions, called on the locked manager.
Cleanup ==
    /\ lock = Free
    /\ sessions' = SessionManager_cleanup_ended_sessions(sessions, now)
    /\ emitted' = NoMsg
    /\ written' = NoWrite
    /\ UNCHANGED <<next_id, dashboard_senders, lock, pending, now, appVars,
                   dashVars, n_env>>
    /\ Bookkeeping

\* The clock advances, at any time; Utc::now() is read for the started_at
\* of a new session, for the ended_at of an ended one and by the sweep.
Tick ==
    /\ now < MaxTime
    /\ now' = now + 1
    /\ emitted' = NoMsg
    /\ written' = NoWrite
    /\ UNCHANGED <<sessions, next_id, dashboard_senders, lock, pending, appVars,
                   dashVars, n_env>>
    /\ Bookkeeping

\* ------------------------------------------------------------------- Next
\* The steps of the handler of the producer connection p, REGISTER payloads
\* drawn from regs, and the cancellation of its forward task after
\* forward_task.abort().
AppConnSteps(p, regs) ==
    \/ \E r \in regs : AppRegister(p, r)
    \/ AppRegisteredWritten(p)
    \/ AppRegisteredWriteFails(p)
    \/ AppAwaitIgnore(p)
    \/ AppAwaitClose(p)
    \/ \E r \in regs : AppDuplicateRegister(p, r)
    \/ AppDropOther(p)
    \/ AppLoopExit(p)
    \/ AppTeardown(p)
    \/ BroadcastResume(p)
    \/ AppForwardAborted(p)

\* The DATA, LOG and ACTION_RESULT frames of the producer connection p, at
\* most `limit` frames accepted over the run, the DATA payloads drawn from
\* `values`.
AppFrameSteps(p, limit, values) ==
    \/ \E s \in SessionIdsInFrames, v \in values :
           n_env < limit /\ AppData(p, s, v)
    \/ \E s \in SessionIdsInFrames, l \in LogPayloads :
           n_env < limit /\ AppLog(p, s, l)
    \/ \E s \in SessionIdsInFrames, a \in ActionResultPayloads :
           n_env < limit /\ AppActionResult(p, s, a)
    \/ \E l \in LogPayloads : AppDropInvalid(p, l)
    \/ \E s \in SessionIdsInFrames, t \in {"DATA", "LOG", "ACTION_RESULT"} :
           AppDropMismatch(p, t, s)

\* The steps of the handler and of the forward task of the consumer
\* connection c while its read loop goes on.
DashOpenSteps(c) ==
    \/ DashConnect(c)
    \/ DashSyncWritten(c)
    \/ DashSyncWriteFails(c)
    \/ DashIgnore(c)
    \/ DashForwardRecv(c)
    \/ DashForward(c)
    \/ DashForwardFails(c)

\* The end of its read loop (close frame, end of stream, read error) and
\* what follows it.
DashCloseSteps(c) ==
    \/ DashLoopExit(c)
    \/ DashTeardown(c)
    \/ DashForwardAborted(c)

\* The steps of the handler and of the forward task of the consumer
\* connection c.
DashConnSteps(c) ==
    \/ DashOpenSteps(c)
    \/ DashCloseSteps(c)

\* The ACTION frames of the consumers cs and their way to the producers ps:
\* the sends to the channels of the producers and the forward tasks of
\* these channels.
ActionSteps(ps, cs, limit) ==
    \/ \E c \in cs, s \in SessionIdsInFrames, a \in DashboardActionPayloads :
           n_env < limit /\ DashAction(c, s, a)
    \/ \E c \in cs : DashActionResume(c)
    \/ \E p \in ps : AppForwardRecv(p)
    \/ \E p \in ps : AppForward(p)
    \/ \E p \in ps : AppForwardFails(p)

\* The broker with every connection, every frame, the sweep and the clock.
Next ==
    \/ \E p \in Producers : AppConnSteps(p, RegisterPayloads)
    \/ \E p \in Producers : AppFrameSteps(p, MaxEnv, DataValues)
    \/ \E c \in Consumers : DashConnSteps(c)
    \/ ActionSteps(Producers, Consumers, MaxEnv)
    \/ Cleanup
    \/ Tick

Spec == InitPlain /\ [][Next]_vars

\* Registration, resumption, teardown and the sweep: both producers, one
\* consumer whose read loop does not end, the clock; no frames after
\* REGISTER.
NextTtl ==
    \/ \E p \in TwoProducers : AppConnSteps(p, RegisterPayloads)
    \/ DashOpenSteps(1)
    \/ Cleanup
    \/ Tick

SpecTtl == InitPlain /\ [][NextTtl]_vars

\* Sessions and routing: both producers with one (device_id, package_name),
\* one consumer and its ACTIONs; no frames from the producers after
\* REGISTER; the clock stands still.
NextSessions ==
    \/ \E p \in TwoProducers : AppConnSteps(p, {OnePayload})
    \/ DashConnSteps(1)
    \/ ActionSteps(TwoProducers, {1}, MaxEnv)

SpecSessions == InitPlain /\ [][NextSessions]_vars

\* Fan-out: one producer, both consumers, frames and ACTIONs; the read loop
\* of consumer 2 does not end.
NextFanout ==
    \/ AppConnSteps(1, {OnePayload})
    \/ AppFrameSteps(1, MaxEnv, DataValues)
    \/ DashConnSteps(1)
    \/ DashOpenSteps(2)
    \/ ActionSteps({1}, Consumers, MaxEnv)

SpecFanout == InitPlain /\ [][NextFanout]_vars

\* The roster: one producer and its frames, both consumers attaching and
\* leaving in every order; no ACTIONs.
NextRoster ==
    \/ AppConnSteps(1, {OnePayload})
    \/ AppFrameSteps(1, MaxEnv, {"v1"})
    \/ \E c \in Consumers : DashConnSteps(c)

SpecRoster == InitPlain /\ [][NextRoster]_vars

\* Order of events: one producer, both consumers, DATA, LOG and
\* ACTION_RESULT frames; the read loop of consumer 2 does not end; every
\* step recorded.
NextOrder ==
    \/ AppConnSteps(1, {OnePayload})
    \/ AppFrameSteps(1, MaxEnv, {"v1"})
    \/ DashConnSteps(1)
    \/ DashOpenSteps(2)

SpecOrder == InitRecorded /\ [][NextOrder]_vars

\* The steps of the forward task of the consumer c.
ForwarderStep(c) ==
    DashForwardRecv(c) \/ DashForward(c) \/ DashForwardFails(c)

\* Delivery: one producer, both consumers, as many frames as fill a
\* consumer's channel behind the frame its forward task holds, and one more;
\* the read loop of consumer 2 does not end; nothing recorded.
NextLive ==
    \/ AppConnSteps(1, {OnePayload})
    \/ AppFrameSteps(1, DashChannelCap + 1, {"v1"})
    \/ DashConnSteps(1)
    \/ DashOpenSteps(2)

\* A send suspended in broadcast_to_dashboards is woken when the channel it
\* waits for has room or loses its receiver, and a forward task waiting in
\* rx.recv() when its channel has a message (tokio mpsc), and a task whose
\* abort() was called is cancelled once its poll has ended, hence the weak
\* fairness of BroadcastResume, of DashForwardRecv and of
\* DashForwardAborted; whether a forward task gets its frame written
\* depends on the peer, and is assumed consumer by consumer where a
\* property needs it.
SpecLive ==
    /\ InitPlain
    /\ [][NextLive]_vars
    /\ WF_vars(BroadcastResume(1))
    /\ \A c \in Consumers : WF_vars(DashForwardRecv(c))
    /\ \A c \in Consumers : WF_vars(DashForwardAborted(c))

\* Detachment: one producer, both consumers, frames and ACTIONs, as many as
\* fill a consumer's channel behind the frame its forward task holds, and
\* one more.
NextDetach ==
    \/ AppConnSteps(1, {OnePayload})
    \/ AppFrameSteps(1, DashChannelCap + 1, {"v1"})
    \/ \E c \in Consumers : DashConnSteps(c)
    \/ ActionSteps({1}, Consumers, DashChannelCap + 1)

\* tokio wakes a suspended send when the channel has room or loses its
\* receiver and a forward task waiting in rx.recv() when its channel has a
\* message, a task whose abort() was called is cancelled once its poll has
\* ended, and its Mutex hands the lock to a waiting task once it is free,
\* hence the weak fairness of the resumed sends, of the recv steps, of the
\* cancellations and of the clean-ups. Whether a read from a WebSocket ends
\* and whether a write to it completes depends on the peer, and is assumed
\* connection by connection where a property needs it.
SpecDetach ==
    /\ InitPlain
    /\ [][NextDetach]_vars
    /\ WF_vars(BroadcastResume(1))
    /\ WF_vars(AppTeardown(1))
    /\ WF_vars(AppForwardRecv(1))
    /\ \A c \in Consumers : WF_vars(DashActionResume(c))
    /\ \A c \in Consumers : WF_vars(DashTeardown(c))
    /\ \A c \in Consumers : WF_vars(DashForwardRecv(c))
    /\ WF_vars(AppForwardAborted(1))
    /\ \A c \in Consumers : WF_vars(DashForwardAborted(c))

\* Start, resume and end as a consumer sees them: both producers with one
\* (device_id, package_name), one consumer whose read loop does not end,
\* frames from producer 2; the frames written to the consumer recorded.
NextLifecycle ==
    \/ \E p \in TwoProducers :
           AppConnSteps(p, {OnePayload})
    \/ AppFrameSteps(2, MaxEnv, {"v1"})
    \/ DashOpenSteps(1)

SpecLifecycle == InitObserved /\ [][NextLifecycle]_vars

\* RingBuffer::new(capacity).
RingNew(capacity) ==
    /\ ring_cap = NoRing
    /\ ring_cap' = capacity
    /\ ring' = << >>
    /\ ring_in' = << >>
    /\ UNCHANGED <<brokerVars, histVars, validated, added>>

\* RingBuffer::push(item).
RingPush(item) ==
    /\ ring_cap # NoRing
    /\ Len(ring_in) < MaxPush
    /\ ring' = RingBuffer_push(ring, ring_cap, item)
    /\ ring_in' = Append(ring_in, item)
    /\ UNCHANGED <<ring_cap, brokerVars, histVars, validated, added>>

\* RingBuffer::clear().
RingClear ==
    /\ ring_cap # NoRing
    /\ ring' = RingBuffer_clear(ring)
    /\ ring_in' = << >>
    /\ UNCHANGED <<ring_cap, brokerVars, histVars, validated, added>>

\* A RingBuffer taken on its own: constructed with any capacity, 0 included,
\* then pushed into and cleared.
NextRing ==
    \/ \E capacity \in 0..MaxRingCap : RingNew(capacity)
    \/ \E item \in RingItems : RingPush(item)
    \/ RingClear

SpecRing == InitPlain /\ [][NextRing]_vars

\* The message and throwable lengths validate is tried on: short ones and
\* those around the limits; a throwable may be absent.
MessageLens ==
    {0, 10} \cup ((MAX_LOG_MESSAGE_SIZE - MaxOver)..(MAX_LOG_MESSAGE_SIZE + MaxOver))

ThrowableLens ==
    {NoLen, 0} \cup ((MAX_LOG_THROWABLE_SIZE - MaxOver)..(MAX_LOG_THROWABLE_SIZE + MaxOver))

\* AppMessage::validate applied to a message of the given type whose payload
\* has a message and a throwable of the given lengths.
Validate(type, message_len, throwable_len) ==
    /\ validated' =
           [type |-> type, message_len |-> message_len,
            throwable_len |-> throwable_len,
            result |-> AppMessage_validate(type,
                           [message_len |-> message_len,
                            throwable_len |-> throwable_len])]
    /\ UNCHANGED <<brokerVars, ringVars, histVars, added>>

\* validate taken on its own, on every type of AppMessage.
NextValidate ==
    \E type \in {"REGISTER", "DATA", "LOG", "ACTION_RESULT"},
       message_len \in MessageLens, throwable_len \in ThrowableLens :
        Validate(type, message_len, throwable_len)

SpecValidate == InitPlain /\ [][NextValidate]_vars

\* Frames with another session's id: two producers with any of the
\* registrations, frames from producer 1, one consumer.
NextMismatch ==
    \/ \E p \in TwoProducers : AppConnSteps(p, RegisterPayloads)
    \/ AppFrameSteps(1, 1, {"v1"})
    \/ DashConnSteps(1)

SpecMismatch == InitPlain /\ [][NextMismatch]_vars

\* REGISTER payloads with one (device_id, package_name) and two dashboard
\* schemas.
ResumePayloads ==
    { [device_id |-> "d1", package_name |-> "com.a", dashboard |-> "s1"],
      [device_id |-> "d1", package_name |-> "com.a", dashboard |-> "s2"] }

\* Resumption: both producers with one (device_id, package_name) and either
\* schema, frames from producer 1, one consumer whose read loop does not
\* end, and a clock that moves, by one tick, while a session is ended.
NextResume ==
    \/ \E p \in TwoProducers : AppConnSteps(p, ResumePayloads)
    \/ AppFrameSteps(1, MaxEnv, {"v1"})
    \/ DashOpenSteps(1)
    \/ (/\ \E id \in DOMAIN sessions : sessions[id].ended_at # NoTime
        /\ now = 0
        /\ Tick)

SpecResume == InitPlain /\ [][NextResume]_vars

\* Three registrations: the three producers with one (device_id,
\* package_name), one consumer.
NextThree ==
    \/ \E p \in Producers : AppConnSteps(p, {OnePayload})
    \/ DashConnSteps(1)

SpecThree == InitPlain /\ [][NextThree]_vars

\* The same three registrations, every broadcast recorded.
SpecEvents == InitRecorded /\ [][NextThree]_vars

\* The three registrations, one consumer whose read loop does not end, and
\* a clock that moves while a session is ended.
NextThreeTtl ==
    \/ \E p \in Producers : AppConnSteps(p, {OnePayload})
    \/ DashOpenSteps(1)
    \/ (/\ \E id \in DOMAIN sessions : sessions[id].ended_at # NoTime
        /\ Tick)

SpecThreeTtl == InitPlain /\ [][NextThreeTtl]_vars

\* Frames around an end and a resumption: both producers with one
\* (device_id, package_name), one frame accepted over the run, one consumer;
\* every broadcast recorded.
NextEnded ==
    \/ \E p \in TwoProducers : AppConnSteps(p, {OnePayload})
    \/ \E p \in TwoProducers : AppFrameSteps(p, 1, {"v1"})
    \/ DashConnSteps(1)

SpecEnded == InitRecorded /\ [][NextEnded]_vars

\* What a call on the SessionManager taken on its own leaves alone.
managerFrame ==
    <<data_buffer_size, log_buffer_size, dashboard_senders, lock, pending, now,
      appVars, dashVars, emitted, written, ringVars, histVars, validated>>

\* manager.create_session(register, tx); a new session is created while
\* there are ids left, an ended one is resumed at any time.
ManagerCreate(register) ==
    /\ LET cands == ResumeCandidates(sessions, register)
       IN \E existing \in (IF cands = {} THEN {0} ELSE cands) :
            /\ existing = 0 => next_id <= Cardinality(Producers)
            /\ LET r == SessionManager_create_session(
                            sessions, register, 1, existing, next_id, now)
               IN /\ sessions' = r.sessions
                  /\ next_id' = IF r.resumed THEN next_id ELSE next_id + 1
    /\ added' = [op |-> "NONE"]
    /\ UNCHANGED <<managerFrame, n_env>>

\* manager.end_session(session_id), for any id: a session of the table,
\* active or ended, gets the present time as its ended_at; an id that is
\* not in the table changes nothing.
ManagerEnd(session_id) ==
    /\ sessions' = SessionManager_end_session(sessions, session_id, now)
    /\ added' = [op |-> "NONE"]
    /\ UNCHANGED <<managerFrame, next_id, n_env>>

\* manager.add_data(session_id, timestamp, data).
ManagerAddData(session_id, payload) ==
    /\ n_env < MaxEnv
    /\ n_env' = n_env + 1
    /\ LET r == SessionManager_add_data(sessions, session_id, payload)
       IN /\ sessions' = r.sessions
          /\ added' = [op |-> "add_data", session_id |-> session_id,
                        result |-> r.result]
    /\ UNCHANGED <<managerFrame, next_id>>

\* manager.add_log(session_id, timestamp, log).
ManagerAddLog(session_id, payload) ==
    /\ n_env < MaxEnv
    /\ n_env' = n_env + 1
    /\ LET r == SessionManager_add_log(sessions, session_id, payload)
       IN /\ sessions' = r.sessions
          /\ added' = [op |-> "add_log", session_id |-> session_id,
                        result |-> r.result]
    /\ UNCHANGED <<managerFrame, next_id>>

\* manager.remove_session(session_id).
ManagerRemove(session_id) ==
    /\ sessions' = SessionManager_remove_session(sessions, session_id)
    /\ added' = [op |-> "NONE"]
    /\ UNCHANGED <<managerFrame, next_id, n_env>>

\* The SessionManager taken on its own: sessions of one (device_id,
\* package_name) created, resumed, ended and removed, data and logs added
\* under ids of the table and ids that are not in it, and a clock that moves
\* by one tick.
NextManager ==
    \/ ManagerCreate(OnePayload)
    \/ \E id \in SessionIdsInFrames : ManagerEnd(id)
    \/ \E id \in SessionIdsInFrames : ManagerRemove(id)
    \/ (now = 0 /\ Tick)
    \/ \E id \in SessionIdsInFrames, v \in DataValues : ManagerAddData(id, v)
    \/ \E id \in SessionIdsInFrames, l \in LogPayloads : ManagerAddLog(id, l)

SpecManager == InitPlain /\ [][NextManager]_vars

\* The rings of a session: any configured capacities, 0 included (the
\* config takes any usize), one producer, one consumer, more DATA and LOG
\* frames than the two rings hold.
NextRings ==
    \/ AppConnSteps(1, {OnePayload})
    \/ AppFrameSteps(1, DataBufferSize + LogBufferSize + 1, DataValues)
    \/ DashConnSteps(1)

\* The initial state of a run with any configured capacities that records
\* nothing.
InitRings ==
    /\ Init
    /\ recording = "none"

SpecRings == InitRings /\ [][NextRings]_vars


\* ================================================================ claims

\* C1: on every consumer connection the first frame the broker writes is
\* SYNC and SYNC is written once: every write to a consumer's WebSocket is a
\* SYNC exactly when no frame was written to that WebSocket before, so no
\* SESSION_STARTED, SESSION_RESUMED, SESSION_DATA, SESSION_LOG, SESSION_ENDED
\* or ACTION_RESULT frame precedes it.
C1_SyncFirstAndOnce ==
    [][\A c \in Consumers :
          written'.to = DashH(c) =>
              ((written'.frame.type = "SYNC") <=> ~dash_written[c])]_vars

\* C1 witness: a consumer attached, and after its SYNC a broadcast frame of a
\* session that registered meanwhile is written to it.
C1_Witness ==
    \E c \in Consumers :
        /\ written.to = DashH(c)
        /\ written.frame.type \in {"SESSION_STARTED", "SESSION_DATA", "SESSION_ENDED"}
        /\ dash_written[c]

\* C2: the sessions computed for SYNC when a consumer attaches are exactly
\* the sessions of the registry without ended_at at that moment, each once,
\* and the SYNC frame written carries them, the registry being unchanged
\* between the attachment and the write.
C2_SyncListsActive ==
    [][\A c \in Consumers :
          /\ (dash_pc[c] = "idle" /\ dash_pc'[c] # "idle") =>
                LET listed == dash_sync'[c]
                    active == { id \in DOMAIN sessions :
                                  sessions[id].ended_at = NoTime }
                IN /\ c \in { dashboard_senders'[i] :
                                i \in 1..Len(dashboard_senders') }
                   /\ { listed[i].session_id : i \in 1..Len(listed) } = active
                   /\ Len(listed) = Cardinality(active)
                   /\ \A i \in 1..Len(listed) :
                        /\ listed[i].device_id =
                               sessions[listed[i].session_id].device_id
                        /\ listed[i].package_name =
                               sessions[listed[i].session_id].package_name
          /\ dash_pc[c] = "sync_write" =>
                /\ sessions' = sessions
                /\ (written'.to = DashH(c) =>
                        written'.frame =
                            [type |-> "SYNC", sessions |-> dash_sync[c]])]_vars

\* C2 witness: a consumer attaches while the registry holds an active and an
\* ended session; its SYNC lists one session.
C2_Witness ==
    \E c \in Consumers :
        /\ dash_pc[c] = "sync_write"
        /\ Len(dash_sync[c]) = 1
        /\ \E id \in DOMAIN sessions : sessions[id].ended_at # NoTime

\* A producer handler completes the step in which it answers REGISTER.
AnswersRegister(p) ==
    app_pc[p] = "reg_write" /\ app_pc'[p] # "reg_write"

\* The ended sessions of the registry with the pair of a REGISTER.
EndedWithPair(register) ==
    { id \in DOMAIN sessions :
        /\ sessions[id].ended_at # NoTime
        /\ sessions[id].device_id = register.device_id
        /\ sessions[id].package_name = register.package_name }

\* C3: a REGISTER read in AwaitRegister while no ended session has its pair
\* adds exactly one session, active, under an id the registry did not hold;
\* the producer is then sent REGISTERED with that id, SESSION_STARTED with
\* the same id is sent toward every attached consumer, and the handler
\* moves to Registered bound to that id.
C3_FreshRegister ==
    [][\A p \in Producers :
          /\ \A register \in RegisterPayloads :
                (AppRegister(p, register) /\ EndedWithPair(register) = {}) =>
                    /\ app_sid'[p] \notin DOMAIN sessions
                    /\ DOMAIN sessions' = DOMAIN sessions \cup {app_sid'[p]}
                    /\ sessions'[app_sid'[p]].ended_at = NoTime
                    /\ \A id \in DOMAIN sessions : sessions'[id] = sessions[id]
          /\ (AnswersRegister(p) /\ ~app_resumed[p]) =>
                /\ written' = [to |-> AppH(p),
                               frame |-> [type |-> "REGISTERED",
                                          session_id |-> app_sid[p]]]
                /\ emitted'.type = "SESSION_STARTED"
                /\ emitted'.session.session_id = app_sid[p]
                /\ app_pc'[p] \in {"registered", "reg_bcast"}
                /\ app_sid'[p] = app_sid[p]]_vars

\* C4: a REGISTER read while the registry holds an ended session with its
\* pair, ended no longer than the TTL ago, gets the id of an ended session
\* with its pair and resumed = true, and no session record is created;
\* SESSION_RESUMED, not SESSION_STARTED, is then sent toward the consumers;
\* and no REGISTER gets the id of a session with another pair.
C4_ResumeWithinTtl ==
    [][\A p \in Producers :
          /\ \A register \in RegisterPayloads :
                AppRegister(p, register) =>
                    /\ (\E id \in EndedWithPair(register) :
                            ElapsedSeconds(now, sessions[id].ended_at)
                                <= TtlSeconds) =>
                          /\ app_resumed'[p]
                          /\ app_sid'[p] \in EndedWithPair(register)
                          /\ DOMAIN sessions' = DOMAIN sessions
                    /\ sessions'[app_sid'[p]].device_id = register.device_id
                    /\ sessions'[app_sid'[p]].package_name =
                           register.package_name
          /\ (AnswersRegister(p) /\ app_resumed[p]) =>
                /\ emitted'.type = "SESSION_RESUMED"
                /\ emitted'.session.session_id = app_sid[p]]_vars

\* C5: whatever the sweep did or did not do, a REGISTER never gets the id of
\* a session that ended longer than the TTL ago: a fresh id is minted.
C5_ExpiredNotResumed ==
    [][\A p \in Producers :
          (app_pc[p] = "await" /\ app_pc'[p] = "reg_write") =>
              \A id \in DOMAIN sessions :
                  (/\ sessions[id].ended_at # NoTime
                   /\ ElapsedSeconds(now, sessions[id].ended_at) > TtlSeconds)
                      => app_sid'[p] # id]_vars

\* The elements of a sequence.
Range(s) == { s[i] : i \in 1..Len(s) }

\* In this step msg is sent toward the consumer c: it enters c's channel, or
\* the sender waits for room in c's channel, or the send fails because c's
\* receiver is gone.
SentToward(c, msg) ==
    \/ dash_queue'[c] = Append(dash_queue[c], msg)
    \/ /\ dash_queue'[c] = dash_queue[c]
       /\ \/ dash_rx[c] = "closed"
          \/ /\ pending'.kind = "broadcast"
             /\ pending'.msg = msg
             /\ c \in Range(pending'.rest)

\* In this step msg is sent toward every consumer of the roster, and enters
\* no other channel.
Broadcast(msg) ==
    /\ emitted' = msg
    /\ \A c \in Range(dashboard_senders) : SentToward(c, msg)
    /\ \A c \in Consumers \ Range(dashboard_senders) :
           dash_queue'[c] = dash_queue[c]

\* buffer after the push of item into a ring of the given capacity: the
\* newest items of before, then item.
PushedInto(before, after, capacity, item) ==
    LET kept == IF Len(before) < capacity THEN Len(before)
                ELSE IF before = << >> THEN 0
                ELSE Len(before) - 1
    IN /\ Len(after) = kept + 1
       /\ after[Len(after)] = item
       /\ \A i \in 1..kept : after[i] = before[Len(before) - kept + i]

\* C6: a DATA (LOG) frame that validates and carries the handler's session
\* id S is appended to the data (log) ring of S, the oldest entry evicted
\* when the ring is full, and one SESSION_DATA (SESSION_LOG) with S and the
\* same payload is sent toward every consumer attached at that moment; a
\* send that had to wait for room delivers that message once.
C6_DataLogAppendedAndBroadcast ==
    [][/\ \A p \in Producers :
            /\ \A v \in DataValues :
                  AppData(p, app_sid[p], v) =>
                      /\ PushedInto(sessions[app_sid[p]].data_buffer,
                                    sessions'[app_sid[p]].data_buffer,
                                    DataBufferSize, v)
                      /\ sessions'[app_sid[p]].log_buffer =
                             sessions[app_sid[p]].log_buffer
                      /\ Broadcast([type |-> "SESSION_DATA",
                                    session_id |-> app_sid[p], data |-> v])
            /\ \A l \in LogPayloads :
                  AppLog(p, app_sid[p], l) =>
                      /\ PushedInto(sessions[app_sid[p]].log_buffer,
                                    sessions'[app_sid[p]].log_buffer,
                                    LogBufferSize, l)
                      /\ sessions'[app_sid[p]].data_buffer =
                             sessions[app_sid[p]].data_buffer
                      /\ Broadcast([type |-> "SESSION_LOG",
                                    session_id |-> app_sid[p], log |-> l])
       /\ (pending.kind = "broadcast" /\ pending' # pending) =>
            /\ \A c \in Range(pending.rest) : SentToward(c, pending.msg)
            /\ \A c \in Consumers \ Range(pending.rest) :
                   dash_queue'[c] = dash_queue[c]]_vars

\* C6 witness: the second DATA frame of a session, which evicts the first
\* from the ring, has entered the channels of two attached consumers.
C6_Witness ==
    /\ emitted.type = "SESSION_DATA"
    /\ n_env = 2
    /\ \E id \in DOMAIN sessions : Len(sessions[id].data_buffer) = DataBufferSize
    /\ \A c \in Consumers :
          /\ c \in Range(dashboard_senders)
          /\ dash_queue[c] # << >>
          /\ dash_queue[c][Len(dash_queue[c])] = emitted

\* C7: an ACTION for a session S that exists and has an app_sender goes
\* toward the channel of the producer connection S is bound to, with its
\* session_id, action_id, action and args unchanged, and into no other
\* producer channel; every other connection that was bound to S has
\* returned, so after a resume the ACTION goes to the new channel.  It
\* enters the channel, or waits for room in it, or is dropped when the
\* channel's receiver is gone.
C7_ActionRouted ==
    [][\A c \in Consumers :
          /\ \A s \in SessionIdsInFrames, a \in DashboardActionPayloads :
                (/\ DashAction(c, s, a)
                 /\ s \in DOMAIN sessions
                 /\ sessions[s].app_sender # NoSender) =>
                    LET p == sessions[s].app_sender
                        msg == [type |-> "ACTION", session_id |-> s,
                                action_id |-> a.action_id,
                                action |-> a.action, args |-> a.args]
                    IN /\ app_sid[p] = s
                       /\ \A q \in Producers \ {p} :
                            /\ app_queue'[q] = app_queue[q]
                            /\ app_sid[q] = s => app_pc[q] = "terminal"
                       /\ IF app_rx[p] = "closed"
                              THEN app_queue'[p] = app_queue[p]
                                   /\ pending' = NoPending
                          ELSE IF Len(app_queue[p]) < AppChannelCap
                              THEN app_queue'[p] = Append(app_queue[p], msg)
                                   /\ pending' = NoPending
                          ELSE /\ app_queue'[p] = app_queue[p]
                               /\ pending' = [kind |-> "action", to |-> p,
                                              msg |-> msg]
          /\ (lock = DashH(c) /\ pending.kind = "action"
                              /\ pending' # pending) =>
                /\ sessions[pending.msg.session_id].app_sender = pending.to
                /\ \A q \in Producers \ {pending.to} :
                       app_queue'[q] = app_queue[q]
                /\ \/ app_queue'[pending.to] =
                          Append(app_queue[pending.to], pending.msg)
                   \/ /\ app_rx[pending.to] = "closed"
                      /\ app_queue'[pending.to] = app_queue[pending.to]]_vars

\* C7 witness: a session created by producer 1 was resumed by producer 2 and
\* an ACTION for it is in the channel of producer 2.
C7_Witness ==
    /\ app_resumed[2]
    /\ app_sid[1] = app_sid[2]
    /\ app_pc[1] = "terminal"
    /\ app_written[1]
    /\ \E i \in 1..Len(app_queue[2]) :
          /\ app_queue[2][i].type = "ACTION"
          /\ app_queue[2][i].session_id = app_sid[2]

\* Every write of REGISTERED or SYNC, made with the lock held, completes or
\* fails.
LockedWritesEnd ==
    /\ WF_vars(AppRegisteredWritten(1) \/ AppRegisteredWriteFails(1))
    /\ \A c \in Consumers : WF_vars(DashSyncWritten(c) \/ DashSyncWriteFails(c))

\* The handler of the producer p returned after its clean-up (end_session,
\* SESSION_ENDED broadcast to the whole roster) and its session is ended.
ProducerDetached(p) ==
    /\ app_pc[p] = "terminal"
    /\ app_sid[p] \in DOMAIN sessions
    /\ sessions[app_sid[p]].ended_at # NoTime

\* C8: when the read loop of a registered producer ends (its channel closed
\* or failed), its session is marked ended and SESSION_ENDED is broadcast,
\* provided no write of REGISTERED or SYNC hangs; and the step in which a
\* handler leaves its main loop's clean-up is the step in which its
\* session, active and bound to it, is marked ended at the time of the step
\* and loses its sender; a session goes from active to ended in exactly the
\* steps that send SESSION_ENDED with its id toward every attached consumer.
\* So each detach of a registered producer ends its session once, and there
\* is one SESSION_ENDED per ended-transition.
C8_DetachEndsSessionOnce ==
    /\ LockedWritesEnd => ((app_pc[1] = "closing") ~> ProducerDetached(1))
    /\ [][/\ \A p \in Producers :
               (app_pc[p] = "closing" /\ app_pc'[p] # "closing") =>
                   /\ app_sid[p] \in DOMAIN sessions
                   /\ sessions[app_sid[p]].ended_at = NoTime
                   /\ sessions[app_sid[p]].app_sender = p
                   /\ sessions'[app_sid[p]].ended_at = now
                   /\ app_pc'[p] \in {"terminal", "end_bcast"}
          /\ \A id \in DOMAIN sessions :
               (/\ sessions[id].ended_at = NoTime
                /\ id \in DOMAIN sessions'
                /\ sessions'[id].ended_at # NoTime)
                   <=> (emitted'.type = "SESSION_ENDED"
                          /\ emitted'.session_id = id)
          /\ emitted'.type = "SESSION_ENDED" =>
               /\ emitted'.session_id \in DOMAIN sessions
               /\ Broadcast([type |-> "SESSION_ENDED",
                             session_id |-> emitted'.session_id])
               /\ \E p \in Producers :
                    /\ app_pc[p] = "closing"
                    /\ app_pc'[p] # "closing"
                    /\ app_sid[p] = emitted'.session_id]_vars

\* C9: in every session of the registry ended_at is present exactly when
\* app_sender is absent.
C9_EndedIffNoSender ==
    \A id \in DOMAIN sessions :
        (sessions[id].ended_at # NoTime) <=> (sessions[id].app_sender = NoSender)

\* C9 witness: a session was created, ended, resumed by producer 2 and
\* ended again.
C9_Witness ==
    /\ app_resumed[2]
    /\ app_pc[2] = "terminal"
    /\ app_sid[2] \in DOMAIN sessions
    /\ sessions[app_sid[2]].ended_at # NoTime
    /\ sessions[app_sid[2]].app_sender = NoSender

\* A producer handler that has created or resumed a session and has not
\* begun its clean-up.
BoundHandler(p) ==
    app_pc[p] \in {"reg_write", "reg_bcast", "registered", "event_bcast",
                   "closing"}

\* A producer handler that has created or resumed a session and has not
\* returned: it may be in its clean-up, suspended in the broadcast of
\* SESSION_ENDED.
LiveHandler(p) ==
    BoundHandler(p) \/ app_pc[p] = "end_bcast"

\* C10: every session without ended_at is the session of a producer handler
\* that has not returned: a handler that reaches Terminal, by whatever path,
\* has marked its session ended.
C10_NoActiveWithoutHandler ==
    \A id \in DOMAIN sessions :
        sessions[id].ended_at = NoTime =>
            \E p \in Producers : app_sid[p] = id /\ LiveHandler(p)

\* C11: a producer handler past its REGISTER and before its clean-up is
\* bound to a session of the registry whose app_sender is that handler's
\* sender, and no other session has that sender; two handlers that have
\* created or resumed a session and have not returned are never bound to
\* the same session id.  The session a handler's clean-up will end is
\* therefore its own.
C11_OneSessionPerLiveHandler ==
    /\ \A p \in Producers :
          BoundHandler(p) =>
              /\ app_sid[p] \in DOMAIN sessions
              /\ sessions[app_sid[p]].app_sender = p
              /\ \A id \in DOMAIN sessions :
                     sessions[id].app_sender = p => id = app_sid[p]
    /\ \A p, q \in Producers :
          (p # q /\ LiveHandler(p) /\ LiveHandler(q)) => app_sid[p] # app_sid[q]

\* C11 witness: two producers with the same (device_id, package_name) are
\* bound to two sessions, one in its main loop, the other between the end
\* of its main loop and its clean-up.
C11_Witness ==
    /\ app_pc[1] = "closing"
    /\ app_pc[2] = "registered"
    /\ app_sid[1] # app_sid[2]
    /\ sessions[app_sid[1]].device_id = sessions[app_sid[2]].device_id
    /\ sessions[app_sid[1]].package_name = sessions[app_sid[2]].package_name

\* C12: whatever capacities are configured, in every session the data ring
\* never holds more than data_buffer_size entries and the log ring never
\* more than log_buffer_size entries, whatever DATA and LOG frames were
\* accepted.
C12_RingsWithinCapacity ==
    \A id \in DOMAIN sessions :
        /\ RingBuffer_len(sessions[id].data_buffer) <= data_buffer_size
        /\ RingBuffer_len(sessions[id].log_buffer) <= log_buffer_size

\* The last k items of a sequence, in order.
LastItems(s, k) == SubSeq(s, Len(s) - k + 1, Len(s))

\* C13: after n pushes into a RingBuffer of capacity c >= 1, iter() yields
\* the last min(n, c) pushed items, oldest first, and len() is min(n, c).
C13_RingBufferLaw ==
    ring_cap >= 1 =>
        LET n == Len(ring_in)
            k == IF n < ring_cap THEN n ELSE ring_cap
        IN /\ RingBuffer_len(ring) = k
           /\ RingBuffer_iter(ring) = LastItems(ring_in, k)

\* C13 witness: more items were pushed than the capacity, which is at least
\* 2, and the items held differ from each other and from the first pushed.
C13_Witness ==
    /\ ring_cap >= 2
    /\ Len(ring_in) > ring_cap + 1
    /\ ring[1] # ring[2]
    /\ ring_in[1] # ring[1]

\* a is b with some elements left out.
RECURSIVE IsSubsequence(_, _)
IsSubsequence(a, b) ==
    IF a = << >> THEN TRUE
    ELSE IF b = << >> THEN FALSE
    ELSE IF Head(a) = Head(b) THEN IsSubsequence(Tail(a), Tail(b))
    ELSE IsSubsequence(a, Tail(b))

\* A SESSION_DATA, SESSION_LOG or ACTION_RESULT message of the session id.
IsEventOf(msg, id) ==
    /\ msg.type \in {"SESSION_DATA", "SESSION_LOG", "ACTION_RESULT"}
    /\ msg.session_id = id

\* The events of the session id in a sequence of messages.
EventsOf(msgs, id) == SelectSeq(msgs, LAMBDA m : IsEventOf(m, id))

\* C14: the SESSION_DATA, SESSION_LOG and ACTION_RESULT frames written to a
\* consumer for a producer's session are, in the order written, a
\* subsequence of the events of that session in the order the broker
\* accepted them: none is reordered or repeated.
C14_EventsInAcceptanceOrder ==
    \A c \in Consumers : \A p \in Producers :
        IsSubsequence(EventsOf(observed[c], app_sid[p]),
                      EventsOf(accepted, app_sid[p]))

\* C14 witness: two different events of a session were written to a
\* consumer that missed none.
C14_Witness ==
    \E c \in Consumers : \E p \in Producers :
        LET seen == EventsOf(observed[c], app_sid[p])
        IN /\ Len(seen) >= 2
           /\ seen[1] # seen[2]
           /\ seen = EventsOf(accepted, app_sid[p])

\* The frames placed in a consumer's channel so far, in order, after its
\* SYNC: those written to its WebSocket, the one its forward task took and
\* is writing, then those still in the channel.
Placed(c) ==
    observed[c]
        \o (IF dash_forwarding[c] = NoMsg THEN << >> ELSE <<dash_forwarding[c]>>)
        \o dash_queue[c]

\* SESSION_STARTED or SESSION_RESUMED of the session id.
IsStartOf(msg, id) ==
    /\ msg.type \in {"SESSION_STARTED", "SESSION_RESUMED"}
    /\ msg.session.session_id = id

\* A frame that tells a consumer whether the session id is active: its SYNC,
\* or SESSION_STARTED, SESSION_RESUMED or SESSION_ENDED of the session.
TellsStateOf(msg, id) ==
    \/ msg.type = "SYNC"
    \/ IsStartOf(msg, id)
    \/ msg.type = "SESSION_ENDED" /\ msg.session_id = id

\* C15: in the frames placed in a consumer's channel, every SESSION_DATA or
\* SESSION_LOG of a session S comes after a frame that tells the consumer S
\* is active, with no SESSION_ENDED of S in between: for a consumer attached
\* before S was started or resumed that frame is the SESSION_STARTED or
\* SESSION_RESUMED of the producer attachment the data comes from; for a
\* consumer attached later it is the SYNC listing S.
C15_StartBeforeData ==
    \A c \in Consumers : \A id \in DOMAIN sessions :
        LET placed == Placed(c)
        IN \A j \in 1..Len(placed) :
              (/\ placed[j].type \in {"SESSION_DATA", "SESSION_LOG"}
               /\ placed[j].session_id = id) =>
                  \E i \in 1..(j - 1) :
                      /\ TellsStateOf(placed[i], id)
                      /\ \A k \in (i + 1)..(j - 1) : ~TellsStateOf(placed[k], id)
                      /\ \/ IsStartOf(placed[i], id)
                         \/ /\ placed[i].type = "SYNC"
                            /\ \E n \in 1..Len(placed[i].sessions) :
                                  placed[i].sessions[n].session_id = id

\* C15 witness: a consumer attached before any session was sent
\* SESSION_RESUMED of a session and then SESSION_DATA of it.
C15_Witness ==
    \E c \in Consumers : \E id \in DOMAIN sessions :
        /\ Len(observed[c]) >= 3
        /\ observed[c][1].type = "SYNC"
        /\ observed[c][1].sessions = << >>
        /\ \E i, j \in 1..Len(observed[c]) :
              /\ i < j
              /\ observed[c][i].type = "SESSION_RESUMED"
              /\ observed[c][i].session.session_id = id
              /\ observed[c][j].type = "SESSION_DATA"
              /\ observed[c][j].session_id = id

\* C16: every write to a producer's WebSocket is REGISTERED exactly when no
\* frame was written to that WebSocket before: REGISTERED is the first frame
\* and no ACTION is written before it, also when the session is resumed and
\* ACTIONs for its id arrive around the registration.
C16_RegisteredBeforeAction ==
    [][\A p \in Producers :
          written'.to = AppH(p) =>
              ((written'.frame.type = "REGISTERED") <=> ~app_written[p])]_vars

\* C16 witness: after two ACTIONs were read, an ACTION is written to the
\* producer that resumed the session of a producer that was written to.
C16_Witness ==
    /\ written.to = AppH(2)
    /\ written.frame.type = "ACTION"
    /\ app_resumed[2]
    /\ app_written[1]
    /\ app_sid[1] = app_sid[2]
    /\ n_env = 2

\* C17: a broadcast completes in the step that begins it: the lock is
\* released and no send is left waiting; the message enters the channel of
\* every consumer of the roster that has room, and a consumer whose channel
\* is full is skipped, so the producer's next frames can be processed.
C17_BroadcastNeverWaits ==
    [][emitted' # NoMsg =>
          /\ lock' = Free
          /\ pending' = NoPending
          /\ \A c \in Range(dashboard_senders) :
                dash_queue'[c] =
                    IF dash_rx[c] # "closed" /\ Len(dash_queue[c]) < DashChannelCap
                        THEN Append(dash_queue[c], emitted')
                        ELSE dash_queue[c]]_vars

\* C18: the routing of an ACTION completes in the step that reads it: when
\* the target producer's channel is full the ACTION is dropped, the lock is
\* released and the consumer handler is back in its main loop.
C18_ActionNeverWaits ==
    [][\A c \in Consumers :
          \A s \in SessionIdsInFrames, a \in DashboardActionPayloads :
              DashAction(c, s, a) =>
                  /\ lock' = Free
                  /\ pending' = NoPending
                  /\ dash_pc'[c] = "open"]_vars

\* C19: REGISTERED and SYNC, the frames a handler writes itself, are written
\* while that handler does not hold the lock (every other frame is written
\* by a forward task, which never takes the lock).
C19_NoWriteUnderLock ==
    [][written'.frame.type \in {"REGISTERED", "SYNC"} =>
          lock # written'.to]_vars

\* The consumer c is in the roster in a state reached by the step that began
\* the broadcast of the message m.
AcceptedFor(c, m) ==
    /\ emitted = m
    /\ c \in Range(dashboard_senders)

\* The consumer c is written m, or its receiver is gone. (No state of the
\* broker stands for an overflow: a send to a full channel waits.)
ObservedOrGone(c, m) ==
    \/ written = [to |-> DashH(c), frame |-> m]
    \/ dash_rx[c] = "closed"

\* The messages the DATA, LOG and ACTION_RESULT frames of a producer are
\* broadcast as.
EventMessages ==
    { [type |-> "SESSION_DATA", session_id |-> s, data |-> v] :
          s \in SessionIdsInFrames, v \in DataValues }
    \cup { [type |-> "SESSION_LOG", session_id |-> s, log |-> l] :
               s \in SessionIdsInFrames, l \in LogPayloads }
    \cup { ActionResultMsg(s, a) :
               s \in SessionIdsInFrames, a \in ActionResultPayloads }

\* C20: for every consumer c, if the forward task of c is scheduled fairly
\* then every DATA, LOG or ACTION_RESULT message whose broadcast began with c
\* in the roster is eventually written to c, unless c's receiver is dropped.
C20_EventuallyObserved ==
    \A c \in Consumers :
        WF_vars(ForwarderStep(c)) =>
            \A m \in EventMessages : AcceptedFor(c, m) ~> ObservedOrGone(c, m)

\* The consumer handlers that have attached and not returned yet.
LiveDashHandler(c) == dash_pc[c] \in {"sync_write", "open", "action_send", "closing"}

\* The roster without the sender of c.
Without(senders, c) == SelectSeq(senders, LAMBDA x : x # c)

\* The number of entries of the roster that are the sender of c.
Entries(senders, c) == Len(senders) - Len(Without(senders, c))

\* C21: after every step the roster holds exactly one sender for each consumer
\* handler that has attached and not returned, and none for the others; a
\* step that adds or removes the sender of a consumer leaves the senders of
\* the other consumers in place, in their order.
C21_RosterIsLiveConsumers ==
    [][/\ \A c \in Consumers :
              Entries(dashboard_senders', c) =
                  IF LiveDashHandler(c)' THEN 1 ELSE 0
       /\ \A c \in Consumers :
              Entries(dashboard_senders', c) # Entries(dashboard_senders, c) =>
                  Without(dashboard_senders', c) = Without(dashboard_senders, c)
       /\ (\A c \in Consumers :
              Entries(dashboard_senders', c) = Entries(dashboard_senders, c)) =>
                  dashboard_senders' = dashboard_senders]_vars

\* Consumer 1 was written its SYNC and has returned; consumer 2 is alone in
\* the roster, in its read loop, with a message in its channel.
C21_Witness ==
    /\ dash_pc[1] = "done" /\ dash_written[1]
    /\ dash_pc[2] = "open" /\ dashboard_senders = <<2>>
    /\ dash_queue[2] # << >>

\* C22: a sweep removes exactly the ended sessions with now - ended_at greater
\* than the TTL; the active sessions, and the ended sessions with
\* now - ended_at at most the TTL (equal to it included), are retained
\* unchanged.
C22_SweepRemovesOnlyPastTtl ==
    [][Cleanup =>
          sessions' =
              [id \in { i \in DOMAIN sessions :
                          \/ sessions[i].ended_at = NoTime
                          \/ now - sessions[i].ended_at <= TtlSeconds * TicksPerSecond }
                  |-> sessions[id]]]_vars

\* C23: validate accepts a LOG exactly when its message has at most 64 KiB
\* and its throwable, if present, at most 256 KiB; a message of 64 KiB + 1
\* yields LogMessageTooLarge, a throwable of 256 KiB + 1 (the message within
\* its limit) yields LogThrowableTooLarge; every other message is accepted.
C23_ValidateLimits ==
    validated.type # "NONE" =>
        IF validated.type = "LOG"
            THEN /\ validated.result = "Ok" <=>
                        /\ validated.message_len <= 64 * 1024
                        /\ \/ validated.throwable_len = NoLen
                           \/ validated.throwable_len <= 256 * 1024
                 /\ validated.message_len = 64 * 1024 + 1 =>
                        validated.result = "LogMessageTooLarge"
                 /\ (/\ validated.message_len <= 64 * 1024
                     /\ validated.throwable_len = 256 * 1024 + 1) =>
                        validated.result = "LogThrowableTooLarge"
            ELSE validated.result = "Ok"

\* A LOG with a message of exactly 64 KiB and a throwable of exactly 256 KiB
\* was validated, and accepted.
C23_Witness ==
    /\ validated.type = "LOG"
    /\ validated.message_len = 64 * 1024
    /\ validated.throwable_len = 256 * 1024
    /\ validated.result = "Ok"

\* The handler h reads a frame that it drops: a producer handler one that
\* does not parse, is of an unknown type or is not a text frame (before or
\* after registration) or a LOG that fails validation, a consumer handler
\* one that does not parse or is not a text frame.
ReadsBadFrame(h) ==
    \/ \E p \in Producers :
          /\ h = AppH(p)
          /\ \/ AppAwaitIgnore(p)
             \/ AppDropOther(p)
             \/ \E l \in LogPayloads : AppDropInvalid(p, l)
    \/ \E c \in Consumers : h = DashH(c) /\ DashIgnore(c)

\* C24: a step in which a producer or a consumer handler reads a frame that
\* does not parse, is of an unknown type or fails LOG validation changes
\* nothing in the registry (sessions, ids, roster), sends nothing toward a
\* consumer or a producer and writes nothing; the handler is where it was,
\* in a loop that reads frames, with its channel as it was, and holds no
\* lock; no other handler or forward task moves; and no LOG that fails
\* validation is ever broadcast or kept in a log ring.
C24_BadFrameDropped ==
    [][/\ \A p \in Producers :
              ReadsBadFrame(AppH(p)) =>
                  /\ app_pc'[p] = app_pc[p]
                  /\ app_pc[p] \in {"await", "registered"}
                  /\ app_rx'[p] = app_rx[p]
       /\ \A c \in Consumers :
              ReadsBadFrame(DashH(c)) =>
                  /\ dash_pc'[c] = dash_pc[c]
                  /\ dash_pc[c] = "open"
                  /\ dash_rx'[c] = dash_rx[c]
                  /\ c \in Range(dashboard_senders')
       /\ \A h \in {AppH(p) : p \in Producers} \cup {DashH(c) : c \in Consumers} :
              ReadsBadFrame(h) =>
                  /\ sessions' = sessions
                  /\ next_id' = next_id
                  /\ dashboard_senders' = dashboard_senders
                  /\ emitted' = NoMsg
                  /\ dash_queue' = dash_queue
                  /\ app_queue' = app_queue
                  /\ written' = NoWrite
                  /\ lock' = lock /\ lock # h
                  /\ pending' = pending
                  /\ UNCHANGED <<appVars, dashVars>>
       /\ emitted'.type = "SESSION_LOG" =>
              AppMessage_validate("LOG", emitted'.log) = "Ok"
       /\ \A id \in DOMAIN sessions' :
              \A i \in 1..Len(sessions'[id].log_buffer) :
                  AppMessage_validate("LOG", sessions'[id].log_buffer[i]) = "Ok"]_vars

\* Producer 1, registered and with a frame accepted before, is back in its
\* main loop after a step that broadcast and wrote nothing; the consumer still
\* holds the message of the accepted frame in its channel.
C24_Witness ==
    /\ app_pc[1] = "registered" /\ app_rx[1] = "open"
    /\ emitted = NoMsg /\ written = NoWrite
    /\ n_env = 1
    /\ \E id \in DOMAIN sessions : sessions[id].log_buffer # << >>
    /\ dash_pc[1] = "open" /\ Len(dash_queue[1]) = 2

\* C25: a producer handler registered with the session S takes no DATA, LOG
\* or ACTION_RESULT frame whose session_id is not S: the step that reads one
\* changes no session, broadcasts nothing, puts nothing in a consumer's
\* channel and leaves the handler registered with S.
C25_MismatchDropped ==
    [][\A p \in Producers : \A s \in SessionIdsInFrames :
          (app_pc[p] = "registered" /\ s # app_sid[p]) =>
              /\ \A v \in DataValues : ~AppData(p, s, v)
              /\ \A l \in LogPayloads : ~AppLog(p, s, l)
              /\ \A a \in ActionResultPayloads : ~AppActionResult(p, s, a)
              /\ \A t \in {"DATA", "LOG", "ACTION_RESULT"} :
                     AppDropMismatch(p, t, s) =>
                         /\ UNCHANGED <<sessions, dashboard_senders, dash_queue>>
                         /\ emitted' = NoMsg
                         /\ app_pc'[p] = "registered"
                         /\ app_sid'[p] = app_sid[p]]_vars

\* Producer 1 is registered with session 1 and producer 2 with session 2,
\* both active; a frame of producer 1 was accepted into session 1, session 2
\* has empty rings, and the last step broadcast nothing.
C25_Witness ==
    /\ app_pc[1] = "registered" /\ app_sid[1] = 1
    /\ app_pc[2] = "registered" /\ app_sid[2] = 2
    /\ DOMAIN sessions = {1, 2}
    /\ sessions[1].data_buffer # << >>
    /\ sessions[2].data_buffer = << >> /\ sessions[2].log_buffer = << >>
    /\ emitted = NoMsg
    /\ dash_pc[1] = "open"

\* C26: the step in which a consumer's ACTION names a session that is not in
\* the table, or one that is ended, puts nothing in any producer's channel,
\* leaves no send pending and leaves the consumer's handler in its read loop
\* with its channel as it was.
C26_ActionForNoSessionDropped ==
    [][\A c \in Consumers :
          \A s \in SessionIdsInFrames, a \in DashboardActionPayloads :
              (/\ DashAction(c, s, a)
               /\ \/ s \notin DOMAIN sessions
                  \/ sessions[s].ended_at # NoTime) =>
                  /\ app_queue' = app_queue
                  /\ pending' = NoPending /\ lock' = Free
                  /\ dash_pc'[c] = "open"
                  /\ dash_rx'[c] = dash_rx[c]
                  /\ dashboard_senders' = dashboard_senders]_vars

\* The consumer sent an ACTION while no session was ever registered: its
\* handler is in its read loop and every producer channel is empty.
C26_Witness ==
    /\ n_env = 1
    /\ sessions = << >>
    /\ dash_pc[1] = "open" /\ dash_rx[1] = "open"
    /\ \A p \in Producers : app_queue[p] = << >>

\* C27: an ACTION_RESULT frame that carries the handler's session id S is
\* sent toward every consumer of the roster as one ACTION_RESULT with S and
\* the frame's action_id, success, message and data, and changes no session.
C27_ActionResultBroadcast ==
    [][\A p \in Producers : \A a \in ActionResultPayloads :
          AppActionResult(p, app_sid[p], a) =>
              /\ Broadcast([type |-> "ACTION_RESULT", session_id |-> app_sid[p],
                            action_id |-> a.action_id, success |-> a.success,
                            message |-> a.message, data |-> a.data])
              /\ sessions' = sessions]_vars

\* An ACTION_RESULT of session 1 has just entered the channels of the two
\* attached consumers.
C27_Witness ==
    /\ emitted.type = "ACTION_RESULT" /\ emitted.session_id = 1
    /\ emitted.message = "cleared" /\ emitted.data = "r1"
    /\ Range(dashboard_senders) = Consumers
    /\ \A c \in Consumers :
           /\ dash_queue[c] # << >>
           /\ dash_queue[c][Len(dash_queue[c])] = emitted

\* The frame msg tells a consumer that the session id is active: it is the
\* SESSION_STARTED or SESSION_RESUMED of the session, or a SYNC that lists it.
TellsActive(msg, id) ==
    \/ IsStartOf(msg, id)
    \/ /\ msg.type = "SYNC"
       /\ \E n \in 1..Len(msg.sessions) : msg.sessions[n].session_id = id

\* C28: attaching a consumer and computing its SYNC is atomic with respect to
\* registrations and session ends. Whenever no critical section is under way,
\* for a consumer in its read loop and every session of the table: the frames
\* placed in the consumer's channel, its SYNC first, tell the state of the
\* session; the last that does tells it active exactly if it is active (a
\* session created or resumed around the attachment is in the SYNC or
\* announced after it, an end is in the SYNC or announced after it); and the
\* session is never told active twice in a row (not both listed in the SYNC
\* and announced).
C28_SyncAtomicWithLifecycle ==
    \A c \in Consumers :
        (lock = Free /\ dash_pc[c] = "open" /\ dash_rx[c] = "open") =>
            \A id \in DOMAIN sessions :
                LET placed == Placed(c)
                    tells == { i \in 1..Len(placed) : TellsStateOf(placed[i], id) }
                IN /\ tells # {}
                   /\ \A i \in tells :
                          (\A k \in tells : k <= i) =>
                              (TellsActive(placed[i], id) <=>
                                   sessions[id].ended_at = NoTime)
                   /\ \A i, j \in tells :
                          (i < j /\ \A k \in tells : ~(i < k /\ k < j)) =>
                              ~(TellsActive(placed[i], id)
                                /\ TellsActive(placed[j], id))

\* C29: the step in which a producer's REGISTER resumes a session clears the
\* session's ended_at and installs the producer's sender, and leaves its id,
\* started_at, data ring, log ring, device_id, package_name and dashboard
\* schema as they were, whatever the REGISTER carries; the snapshot of the
\* session taken then has the latest_data and recent_logs of before.
C29_ResumeKeepsSession ==
    [][\A p \in Producers : \A r \in ResumePayloads :
          (AppRegister(p, r) /\ app_resumed'[p]) =>
              LET old == sessions[app_sid'[p]]
                  new == sessions'[app_sid'[p]]
              IN /\ old.ended_at # NoTime
                 /\ new.ended_at = NoTime
                 /\ new.app_sender = p
                 /\ new.id = old.id
                 /\ new.started_at = old.started_at
                 /\ new.data_buffer = old.data_buffer
                 /\ new.log_buffer = old.log_buffer
                 /\ new.device_id = old.device_id
                 /\ new.package_name = old.package_name
                 /\ new.dashboard_schema = old.dashboard_schema
                 /\ Session_to_session_info(new).latest_data =
                        Session_get_latest_data(old)
                 /\ Session_to_session_info(new).recent_logs =
                        Session_get_recent_logs(old)
                 /\ Session_to_session_info(new).started_at = old.started_at
                 /\ Session_to_session_info(new).dashboard = old.dashboard_schema]_vars

\* Producer 2 has just resumed, after the clock moved, a session that was
\* started with the schema s1 and holds a DATA and a LOG entry; the
\* SESSION_RESUMED it broadcast carries them.
C29_Witness ==
    /\ app_pc[2] = "registered" /\ app_resumed[2]
    /\ emitted.type = "SESSION_RESUMED"
    /\ emitted.session.session_id = app_sid[2]
    /\ emitted.session.latest_data = "v1"
    /\ emitted.session.recent_logs # << >>
    /\ emitted.session.dashboard = "s1"
    /\ emitted.session.started_at < now

\* The session s has the (device_id, package_name) of the REGISTER payload r.
SamePair(s, r) ==
    /\ s.device_id = r.device_id
    /\ s.package_name = r.package_name

\* The active sessions with the (device_id, package_name) of r.
ActiveWithPair(ss, r) ==
    { id \in DOMAIN ss : ss[id].ended_at = NoTime /\ SamePair(ss[id], r) }

\* In this step the REGISTER r of the handler p makes a new, active session.
MakesNewSession(p, r) ==
    /\ ~app_resumed'[p]
    /\ app_sid'[p] \notin DOMAIN sessions
    /\ DOMAIN sessions' = DOMAIN sessions \cup {app_sid'[p]}
    /\ sessions'[app_sid'[p]].ended_at = NoTime
    /\ SamePair(sessions'[app_sid'[p]], r)

\* C30: a REGISTER handled while a session with its (device_id, package_name)
\* is active leaves every such session as it is, active and with its sender.
\* If the table holds no ended session with that pair, a new session with
\* another id is made, active beside the others; if it holds ended sessions
\* with that pair and each of them ended no longer than the TTL ago, one of
\* them is resumed and no session is made.
C30_ActiveNotReplaced ==
    [][\A p \in Producers : \A r \in RegisterPayloads :
          (AppRegister(p, r) /\ ActiveWithPair(sessions, r) # {}) =>
              /\ \A id \in ActiveWithPair(sessions, r) :
                     /\ sessions'[id] = sessions[id]
                     /\ app_sid'[p] # id
              /\ EndedWithPair(r) = {} => MakesNewSession(p, r)
              /\ (/\ EndedWithPair(r) # {}
                  /\ \A id \in EndedWithPair(r) :
                         ElapsedSeconds(now, sessions[id].ended_at)
                             <= TtlSeconds) =>
                     /\ app_resumed'[p]
                     /\ app_sid'[p] \in EndedWithPair(r)
                     /\ DOMAIN sessions' = DOMAIN sessions
                     /\ sessions'[app_sid'[p]].ended_at = NoTime
                     /\ sessions'[app_sid'[p]].app_sender = p]_vars

\* The statement as the specification has it: a REGISTER handled while a
\* session with its (device_id, package_name) is active always makes a new
\* session and leaves the active one as it is.
C30_AlwaysNewSession ==
    [][\A p \in Producers : \A r \in RegisterPayloads :
          (AppRegister(p, r) /\ ActiveWithPair(sessions, r) # {}) =>
              /\ \A id \in ActiveWithPair(sessions, r) :
                     sessions'[id] = sessions[id]
              /\ MakesNewSession(p, r)]_vars

\* Producer 2 registered while the session of producer 1, with the same
\* (device_id, package_name), was active and got a new session; producer 1
\* left, the clock moved, and producer 3 has registered while the session of
\* producer 2 is active: it resumed the session of producer 1, within the
\* TTL, and both sessions are active, each with its own sender.
C30_Witness ==
    /\ app_pc[1] = "terminal" /\ app_pc[2] = "registered"
    /\ app_pc[3] = "reg_write"
    /\ ~app_resumed[2] /\ app_resumed[3]
    /\ app_sid[1] = 1 /\ app_sid[2] = 2 /\ app_sid[3] = 1
    /\ DOMAIN sessions = {1, 2}
    /\ SamePair(sessions[2], OnePayload) /\ SamePair(sessions[1], OnePayload)
    /\ sessions[1].ended_at = NoTime /\ sessions[1].app_sender = 3
    /\ sessions[2].ended_at = NoTime /\ sessions[2].app_sender = 2
    /\ now = TtlSeconds * TicksPerSecond

\* A step creates or resumes a session: an id enters the table, or a session
\* that was ended is active again.
CreatesOrResumes ==
    \E id \in DOMAIN sessions' :
        /\ sessions'[id].ended_at = NoTime
        /\ id \in DOMAIN sessions => sessions[id].ended_at # NoTime

\* C31: a REGISTER read by a producer handler that is registered with the
\* session S is dropped: the step changes no session and mints no id,
\* broadcasts nothing, writes no REGISTERED (nor anything else) and leaves
\* the handler registered with S; and every step that creates or resumes a
\* session is the step of a handler that was waiting for its REGISTER.
C31_DuplicateRegisterDropped ==
    [][/\ \A p \in Producers : \A r \in RegisterPayloads :
              AppDuplicateRegister(p, r) =>
                  /\ UNCHANGED <<sessions, next_id, dashboard_senders>>
                  /\ UNCHANGED <<app_queue, dash_queue>>
                  /\ emitted' = NoMsg
                  /\ written' = NoWrite
                  /\ app_pc'[p] = "registered"
                  /\ app_sid'[p] = app_sid[p]
       /\ CreatesOrResumes =>
              \E p \in Producers :
                  /\ app_pc[p] = "await"
                  /\ app_pc'[p] = "reg_write"
                  /\ sessions'[app_sid'[p]].app_sender = p]_vars

\* Producer 1 is registered with an active session while an ended session of
\* the same device and package is in the table (a REGISTER handled again
\* would resume it); the last step broadcast and wrote nothing.
C31_Witness ==
    /\ app_pc[1] = "registered"
    /\ app_sid[1] \in DOMAIN sessions
    /\ sessions[app_sid[1]].ended_at = NoTime
    /\ \E id \in DOMAIN sessions :
           /\ sessions[id].ended_at # NoTime
           /\ sessions[id].device_id = sessions[app_sid[1]].device_id
           /\ sessions[id].package_name = sessions[app_sid[1]].package_name
    /\ lock = Free
    /\ emitted = NoMsg /\ written = NoWrite

\* C32: a producer handler that waits for its REGISTER has no effect on the
\* broker. The step in which it reads any other frame (DATA, LOG,
\* ACTION_RESULT, a frame that does not parse, binary, ping, pong) changes
\* nothing and leaves it waiting; the step in which its channel closes or
\* fails ends the handler, creates and ends no session and broadcasts
\* nothing. A handler leaves the wait only for the write of REGISTERED or for
\* its end, and SESSION_ENDED is only ever broadcast by a handler that had
\* REGISTERED written and is in its clean-up.
C32_AwaitRegisterHasNoEffect ==
    [][/\ \A p \in Producers :
              /\ AppAwaitIgnore(p) =>
                     /\ UNCHANGED <<sessions, next_id, dashboard_senders, lock, pending>>
                     /\ UNCHANGED <<appVars, dashVars>>
                     /\ emitted' = NoMsg
                     /\ written' = NoWrite
              /\ AppAwaitClose(p) =>
                     /\ UNCHANGED <<sessions, next_id, dashboard_senders, lock, pending>>
                     /\ UNCHANGED <<app_queue, dash_queue>>
                     /\ emitted' = NoMsg
                     /\ written' = NoWrite
                     /\ app_pc'[p] = "terminal"
              /\ (app_pc[p] = "await" /\ app_pc'[p] # "await") =>
                     \/ app_pc'[p] = "reg_write"
                     \/ /\ app_pc'[p] = "terminal"
                        /\ UNCHANGED sessions
                        /\ emitted' = NoMsg
       /\ emitted'.type = "SESSION_ENDED" =>
              \E p \in Producers :
                  /\ app_pc[p] = "closing"
                  /\ app_written[p]
                  /\ app_sid[p] = emitted'.session_id
                  /\ app_sid[p] \in DOMAIN sessions]_vars

\* Producer 2 ended while waiting for its REGISTER (no session id, nothing
\* written to it) while producer 1 is registered with the only session, which
\* is active, and the consumer, attached before, holds SESSION_STARTED and
\* nothing else in its channel.
C32_Witness ==
    /\ app_pc[2] = "terminal" /\ app_sid[2] = 0 /\ ~app_written[2]
    /\ app_pc[1] = "registered" /\ app_sid[1] = 1
    /\ DOMAIN sessions = {1}
    /\ sessions[1].ended_at = NoTime
    /\ dash_pc[1] = "open"
    /\ Len(dash_queue[1]) = 1
    /\ dash_queue[1][1].type = "SESSION_STARTED"
    /\ emitted = NoMsg

\* The forward task of the producer p broke out of its loop on a failed
\* write while the handler is in its main loop.
ProducerWriteFailed(p) ==
    /\ app_rx[p] = "closed"
    /\ app_pc[p] \in {"registered", "event_bcast"}

\* C33: if the reads from the producer's WebSocket end once its channel is
\* broken, and no write of REGISTERED or SYNC hangs, then a failed write of
\* the producer's forward task leads to the handler returned after its
\* clean-up, with the session marked ended and SESSION_ENDED broadcast.
C33_WriteFailureEndsSession ==
    (LockedWritesEnd /\ WF_vars(AppLoopExit(1))) =>
        (ProducerWriteFailed(1) ~> ProducerDetached(1))

\* The forward task of the consumer c broke out of its loop on a failed
\* write while the handler is in its main loop.
ConsumerWriteFailed(c) ==
    /\ dash_rx[c] = "closed"
    /\ dash_pc[c] \in {"open", "action_send"}

\* The handler of the consumer c returned and its sender is off the roster.
ConsumerDetached(c) ==
    /\ dash_pc[c] = "done"
    /\ c \notin Range(dashboard_senders)

\* C34: for every consumer c, if the reads from c's WebSocket end once its
\* channel is broken, and no write of REGISTERED or SYNC hangs, then a failed
\* write of c's forward task leads to c's handler returned and c's sender
\* removed from the roster.
C34_WriteFailureDetaches ==
    \A c \in Consumers :
        (LockedWritesEnd /\ WF_vars(DashLoopExit(c))) =>
            (ConsumerWriteFailed(c) ~> ConsumerDetached(c))

\* The consumers whose send the step completes: those the broadcast begun
\* or resumed in the step had to serve, but for those it still has to serve
\* after the step.
ServedInStep ==
    LET before == IF emitted' # NoMsg
                      THEN Range(dashboard_senders)
                  ELSE IF pending.kind = "broadcast" /\ pending' # pending
                      THEN Range(pending.rest)
                  ELSE {}
        after == IF pending'.kind = "broadcast"
                     THEN Range(pending'.rest)
                     ELSE {}
    IN before \ after

\* In the step the send to the consumer c fails, at once or after it waited
\* for room: the step completes the send to c and c's receiver is gone.
FailedSendTo(c) ==
    /\ c \in ServedInStep
    /\ dash_rx[c] = "closed"

\* C35: after a broadcast in which the send to a consumer's sender fails,
\* that sender is no longer in the roster.
C35_FailedSendRemoves ==
    [][\A c \in Consumers :
          FailedSendTo(c) => c \notin Range(dashboard_senders')]_vars

\* The ACTION of the payload a for the session s is on its way to the
\* producer p after the step: appended to p's channel, or held by the send
\* that waits for room in it.
ActionSentTo(p, s, a) ==
    \/ app_queue' = [app_queue EXCEPT ![p] = Append(@, ActionMsg(s, a))]
    \/ /\ pending' = [kind |-> "action", to |-> p, msg |-> ActionMsg(s, a)]
       /\ app_queue' = app_queue

\* C36: the step in which a consumer's ACTION is read leaves the table with
\* the same sessions, each with its data ring, log ring, ended_at and
\* app_sender (and identity) as before; an ACTION named network_clear for a
\* session of the table leaves that session's network-request ring empty and
\* every other session as it was, an ACTION with another name changes no
\* session at all; and an ACTION, network_clear or not, for a session whose
\* producer is connected is sent to that producer, unmodified. The resumed
\* send of an ACTION changes no session.
C36_NetworkClearOnly ==
    [][/\ \A c \in Consumers : \A s \in SessionIdsInFrames :
            \A a \in DashboardActionPayloads :
              DashAction(c, s, a) =>
                  /\ DOMAIN sessions' = DOMAIN sessions
                  /\ \A id \in DOMAIN sessions :
                         /\ sessions'[id].data_buffer = sessions[id].data_buffer
                         /\ sessions'[id].log_buffer = sessions[id].log_buffer
                         /\ sessions'[id].ended_at = sessions[id].ended_at
                         /\ sessions'[id].app_sender = sessions[id].app_sender
                         /\ sessions'[id].id = sessions[id].id
                         /\ id # s => sessions'[id] = sessions[id]
                  /\ (a.action = "network_clear" /\ s \in DOMAIN sessions) =>
                         sessions'[s].network_requests = << >>
                  /\ a.action # "network_clear" => sessions' = sessions
                  /\ (/\ s \in DOMAIN sessions
                      /\ sessions[s].app_sender # NoSender
                      /\ app_rx[sessions[s].app_sender] # "closed") =>
                         ActionSentTo(sessions[s].app_sender, s, a)
       /\ \A c \in Consumers : DashActionResume(c) => UNCHANGED sessions]_vars

\* The channel of producer 1 holds the ACTION network_clear for its session,
\* which is active, has an empty network-request ring and still has the DATA
\* or LOG taken before the ACTION.
C36_Witness ==
    /\ app_pc[1] = "registered" /\ app_sid[1] \in DOMAIN sessions
    /\ app_queue[1] # << >>
    /\ app_queue[1][1].type = "ACTION"
    /\ app_queue[1][1].action = "network_clear"
    /\ app_queue[1][1].session_id = app_sid[1]
    /\ sessions[app_sid[1]].network_requests = << >>
    /\ sessions[app_sid[1]].ended_at = NoTime
    /\ \/ sessions[app_sid[1]].data_buffer # << >>
       \/ sessions[app_sid[1]].log_buffer # << >>

\* The SESSION_STARTED, SESSION_RESUMED and SESSION_ENDED messages of the
\* session id in a sequence of messages, in order.
LifecycleOf(msgs, id) ==
    SelectSeq(msgs, LAMBDA m : \/ IsStartOf(m, id)
                               \/ m.type = "SESSION_ENDED" /\ m.session_id = id)

\* SESSION_STARTED, then SESSION_ENDED and SESSION_RESUMED in turn.
StartedThenAlternating(msgs) ==
    \A i \in 1..Len(msgs) :
        msgs[i].type = IF i = 1 THEN "SESSION_STARTED"
                       ELSE IF i % 2 = 0 THEN "SESSION_ENDED"
                       ELSE "SESSION_RESUMED"

\* C37: for every session id, the lifecycle messages the broker has
\* broadcast for it are, in order, SESSION_STARTED, then SESSION_ENDED and
\* SESSION_RESUMED in turn: SESSION_STARTED once and first, SESSION_RESUMED
\* only directly after a SESSION_ENDED, SESSION_ENDED only directly after
\* SESSION_STARTED or SESSION_RESUMED.
C37_LifecycleSequence ==
    \A id \in 0..Cardinality(Producers) :
        StartedThenAlternating(LifecycleOf(accepted, id))

\* A session was started, ended, resumed by a second connection, ended, and
\* resumed by a third.
C37_Witness ==
    \E id \in DOMAIN sessions :
        /\ Len(LifecycleOf(accepted, id)) = 5
        /\ sessions[id].ended_at = NoTime

\* The type of the last lifecycle message broadcast for the session id.
LastLifecycle(id) ==
    LET l == LifecycleOf(accepted, id)
    IN IF l = << >> THEN "NONE" ELSE l[Len(l)].type

\* C38: while the last lifecycle message broadcast for a session S is
\* SESSION_ENDED (none of SESSION_RESUMED followed it), no step begins the
\* broadcast of a SESSION_DATA, SESSION_LOG or ACTION_RESULT of S, and every
\* step leaves S in the table with its data, log and network-request rings
\* as they were.
C38_QuietWhileEnded ==
    [][\A id \in 1..Cardinality(Producers) :
          LastLifecycle(id) = "SESSION_ENDED" =>
              /\ ~IsEventOf(emitted', id)
              /\ id \in DOMAIN sessions
              /\ id \in DOMAIN sessions'
              /\ sessions'[id].data_buffer = sessions[id].data_buffer
              /\ sessions'[id].log_buffer = sessions[id].log_buffer
              /\ sessions'[id].network_requests = sessions[id].network_requests]_vars

\* A session was started, ended and resumed, in that order, and the message
\* broadcast last is an event of it, taken into its rings after the
\* resumption.
C38_Witness ==
    \E id \in DOMAIN sessions :
        /\ Len(LifecycleOf(accepted, id)) = 3
        /\ LastLifecycle(id) = "SESSION_RESUMED"
        /\ IsEventOf(accepted[Len(accepted)], id)
        /\ accepted[Len(accepted)].type \in {"SESSION_DATA", "SESSION_LOG"}
        /\ \/ sessions[id].data_buffer # << >>
           \/ sessions[id].log_buffer # << >>

\* The session `after` is the session `before` but for the ring named.
SameButRing(before, after, ring_name) ==
    /\ after.id = before.id
    /\ after.device_id = before.device_id
    /\ after.package_name = before.package_name
    /\ after.dashboard_schema = before.dashboard_schema
    /\ after.started_at = before.started_at
    /\ after.ended_at = before.ended_at
    /\ after.app_sender = before.app_sender
    /\ after.network_requests = before.network_requests
    /\ ring_name # "data" => after.data_buffer = before.data_buffer
    /\ ring_name # "log" => after.log_buffer = before.log_buffer

\* C39: add_data (add_log) called with an id of the table returns true and
\* pushes the item into the data (log) ring of that session, active or
\* ended, changing nothing else in it and no other session; called with an
\* id that is not in the table it returns false and leaves the whole table
\* as it was.
C39_AddReturnsWhetherKnown ==
    [][\A id \in SessionIdsInFrames :
          /\ \A v \in DataValues :
                 ManagerAddData(id, v) =>
                     IF id \in DOMAIN sessions
                         THEN /\ added'.result = TRUE
                              /\ DOMAIN sessions' = DOMAIN sessions
                              /\ PushedInto(sessions[id].data_buffer,
                                            sessions'[id].data_buffer,
                                            DataBufferSize, v)
                              /\ SameButRing(sessions[id], sessions'[id], "data")
                              /\ \A o \in DOMAIN sessions \ {id} :
                                     sessions'[o] = sessions[o]
                         ELSE /\ added'.result = FALSE
                              /\ sessions' = sessions
          /\ \A l \in LogPayloads :
                 ManagerAddLog(id, l) =>
                     IF id \in DOMAIN sessions
                         THEN /\ added'.result = TRUE
                              /\ DOMAIN sessions' = DOMAIN sessions
                              /\ PushedInto(sessions[id].log_buffer,
                                            sessions'[id].log_buffer,
                                            LogBufferSize, l)
                              /\ SameButRing(sessions[id], sessions'[id], "log")
                              /\ \A o \in DOMAIN sessions \ {id} :
                                     sessions'[o] = sessions[o]
                         ELSE /\ added'.result = FALSE
                              /\ sessions' = sessions]_vars

\* The last call was an add_data under an id that is not in the table and
\* returned false, while the table holds a session with data: an earlier
\* add_data under its id returned true and pushed.
C39_Witness ==
    /\ added.op = "add_data"
    /\ added.session_id \notin DOMAIN sessions
    /\ added.result = FALSE
    /\ \E id \in DOMAIN sessions : sessions[id].data_buffer # << >>

====
